---- MODULE Spec2Model ----
(***************************************************************************)
(* AIX data graph: the error-report (errpt) and system-log collectors.     *)
(* Text is modelled as TLA+ strings, handled character by character the    *)
(* way the Python string methods handle it (strip, split, in, upper).      *)
(***************************************************************************)
EXTENDS Integers, Sequences, FiniteSets, TLC

VARIABLES
    collector,      \* which collector's collect runs: "errpt" or "syslog"
    pc,             \* position inside collect
    server_config,  \* the server descriptor {name, hostname}
    remote,         \* what the remote side does with the commands
    lines,          \* stdout.split('\n') of collect_errpt_data
    idx,            \* index of the next line of the for loop
    current_entry,  \* the open accumulator
    errpt_data,     \* the records emitted so far
    log_idx,        \* index of the next log file of collect_syslog_data
    syslog_data,    \* the entries collect_syslog_data has built so far
    processed_data, \* the list _process_errpt_data / _process_syslog_data builds
    write_calls,    \* number of calls of the storage write
    written,        \* the batches handed to the storage write, and what it did
    result,         \* the dictionary collect returns
    now,            \* the wall clock: datetime.now().isoformat()
    run,            \* which call of collect on the same input this is
    previous,       \* the records the call before this one built
    config,         \* AIXLogCollector.config: aix_servers and collection
    fleet_pc,       \* position inside collect_all_servers
    server_idx,     \* index of the next server of its for loop
    all_results,    \* the list collect_all_servers builds
    stats,          \* AIXLogCollector.stats
    calls,          \* the servers collect_from_server was called for
    invocations,    \* per such call: the collaborators it called, in
                    \* order, and the list it returned
    max_connections,\* SSHManager.max_connections
    connections,    \* SSHManager.connections, in insertion order
    clients_made,   \* number of SSH clients created so far
    pool_call,      \* the last call on the pool and what it returned
    config_file,    \* what the configuration file holds
    loader_config,  \* ConfigLoader.config
    load_call,      \* the last call of load or reload and how it ended
    intervals,      \* config['collection']: errpt_interval, syslog_interval
    jobs,           \* the jobs registered with schedule, in order
    clock,          \* seconds since start_scheduler was called
    sched_pc,       \* position inside start_scheduler
    firing          \* the last job run_pending ran and what it collected

collectVars == <<collector, pc, server_config, remote, lines, idx,
                 current_entry, errpt_data, log_idx, syslog_data,
                 processed_data, write_calls, written, result>>

rerunVars == <<now, run, previous>>

fleetVars == <<config, fleet_pc, server_idx, all_results, stats, calls,
               invocations>>

poolVars == <<max_connections, connections, clients_made, pool_call>>

loaderVars == <<config_file, loader_config, load_call>>

schedVars == <<intervals, jobs, clock, sched_pc, firing>>

serviceVars == <<poolVars, loaderVars, schedVars>>

vars == <<collectVars, rerunVars, fleetVars, serviceVars>>

(* ------------------------------ bounds --------------------------------- *)

\* Longest output of the remote errpt command, in lines.
MaxLines == 4

\* Most system-log entries one collection reads, over all log files.
MaxEntries == 2

\* Longest list a stubbed collect_errpt_data returns.
MaxRecords == 2

\* Most words an error identifier is made of.
MaxWords == 2

\* entries of a list handed to _process_syslog_data by collect_syslog_data
MaxMsgs == 1

\* lines of an errpt output made of field lines
MaxFieldLines == 2

\* servers in config['aix_servers']
MaxServers == 2

\* runs of collect_all_servers
MaxRuns == 2

\* largest max_concurrent_connections of a configuration
MaxPool == 2

\* SSH clients created by one SSHManager
MaxClients == 4

\* largest errpt_interval or syslog_interval of a configuration, in seconds
MaxInterval == 2

\* seconds the scheduler loop is followed for
MaxClock == 3

(* ------------------------------ strings -------------------------------- *)

\* str.strip() with no argument removes these.
IsSpace(c) == c \in {" ", "\t", "\n", "\r"}

CharAt(s, i) == SubSeq(s, i, i)

RECURSIVE LStrip(_)
LStrip(s) ==
    IF Len(s) = 0 THEN ""
    ELSE IF IsSpace(CharAt(s, 1)) THEN LStrip(SubSeq(s, 2, Len(s)))
    ELSE s

RECURSIVE RStrip(_)
RStrip(s) ==
    IF Len(s) = 0 THEN ""
    ELSE IF IsSpace(CharAt(s, Len(s))) THEN RStrip(SubSeq(s, 1, Len(s) - 1))
    ELSE s

\* str.strip()
Strip(s) == RStrip(LStrip(s))

\* does sub start at position i of s
StartsAt(s, sub, i) ==
    /\ i >= 1
    /\ i + Len(sub) - 1 <= Len(s)
    /\ SubSeq(s, i, i + Len(sub) - 1) = sub

\* sub in s
Contains(s, sub) == \E i \in 1..(Len(s) + 1) : StartsAt(s, sub, i)

\* s.find(sub) + 1, and 0 when sub is not in s
Find(s, sub) ==
    IF Contains(s, sub)
    THEN CHOOSE i \in 1..(Len(s) + 1) :
            /\ StartsAt(s, sub, i)
            /\ \A j \in 1..(i - 1) : ~StartsAt(s, sub, j)
    ELSE 0

\* s.split(sep) for a non-empty sep: the pieces between the
\* non-overlapping occurrences of sep, scanned from the left
RECURSIVE Split(_, _)
Split(s, sep) ==
    LET p == Find(s, sep)
    IN IF p = 0 THEN <<s>>
       ELSE <<SubSeq(s, 1, p - 1)>> \o Split(SubSeq(s, p + Len(sep), Len(s)), sep)

\* sep.join(parts)
RECURSIVE Join(_, _)
Join(parts, sep) ==
    IF Len(parts) = 0 THEN ""
    ELSE IF Len(parts) = 1 THEN parts[1]
    ELSE parts[1] \o sep \o Join(Tail(parts), sep)

(* ------------------------------ values --------------------------------- *)

\* Python values that occur as dictionary values: str, int and None.
Str(s) == [t |-> "str", s |-> s, n |-> 0]
PyInt(n) == [t |-> "int", s |-> "", n |-> n]
None == [t |-> "none", s |-> "", n |-> 0]

\* bool(v): the empty string, 0 and None are falsy
Truthy(v) ==
    CASE v.t = "str" -> v.s # ""
      [] v.t = "int" -> v.n # 0
      [] OTHER -> FALSE

\* str(v), as an f-string formats it
PyStr(v) ==
    CASE v.t = "str" -> v.s
      [] v.t = "int" -> ToString(v.n)
      [] OTHER -> "None"

\* {}
EmptyDict == [k \in {} |-> ""]

\* d[k] = v
DictSet(d, k, v) == [x \in (DOMAIN d) \cup {k} |-> IF x = k THEN v ELSE d[x]]

\* d.get(k, default), the stored str wrapped as a value
DictGet(d, k, default) == IF k \in DOMAIN d THEN Str(d[k]) ELSE default

(* ------------------- SSHManager.execute_command ------------------------ *)

\* The servers of the configuration: _validate_config asks only that name
\* and hostname are present, so an empty or null value passes.
Servers ==
    { [name |-> Str("aix1"), hostname |-> Str("10.0.0.1")],
      [name |-> Str(""), hostname |-> None] }

\* (success, stdout, stderr) of execute_command for what the remote side
\* does: no connection, an exception while executing (a timeout), a
\* non-zero exit status, or exit status 0.
ExecuteCommand(r, server) ==
    CASE r.kind = "noconn" ->
            [success |-> FALSE, stdout |-> "",
             stderr |-> "Failed to establish SSH connection to " \o PyStr(server.hostname)]
      [] r.kind = "timeout" ->
            [success |-> FALSE, stdout |-> "",
             stderr |-> "Error executing command on " \o PyStr(server.hostname) \o ": timed out"]
      [] r.kind = "nonzero" ->
            [success |-> FALSE, stdout |-> Strip(Join(r.out, "\n")), stderr |-> Strip(r.err)]
      [] OTHER ->
            [success |-> TRUE, stdout |-> Strip(Join(r.out, "\n")), stderr |-> Strip(r.err)]

(* ------------------- SSHManager.collect_errpt_data --------------------- *)

\* The if/elif chain of the parser, in its order: the marker tested and
\* the key the text after it is stored under.
Markers ==
    << [marker |-> "IDENTIFIER:", key |-> "error_id"],
       [marker |-> "Timestamp:", key |-> "timestamp"],
       [marker |-> "Sequence Number:", key |-> "sequence_number"],
       [marker |-> "Machine Id:", key |-> "machine_id"],
       [marker |-> "Node Id:", key |-> "node_id"],
       [marker |-> "Class:", key |-> "class"],
       [marker |-> "Type:", key |-> "type"],
       [marker |-> "Resource Name:", key |-> "resource_name"],
       [marker |-> "Resource Class:", key |-> "resource_class"],
       [marker |-> "Resource Type:", key |-> "resource_type"],
       [marker |-> "Location:", key |-> "location_code"],
       [marker |-> "VPD:", key |-> "vpd"],
       [marker |-> "Description:", key |-> "description"],
       [marker |-> "Probable Causes:", key |-> "probable_causes"],
       [marker |-> "User Causes:", key |-> "user_causes"],
       [marker |-> "Install Causes:", key |-> "install_causes"],
       [marker |-> "Failure Causes:", key |-> "failure_causes"],
       [marker |-> "Recommended Actions:", key |-> "recommended_actions"],
       [marker |-> "Detail Data:", key |-> "detail_data"] >>

\* The branch of the chain a stripped line takes: the first marker the
\* line contains, 0 when it contains none.
FirstMarker(line) ==
    IF \E i \in 1..Len(Markers) : Contains(line, Markers[i].marker)
    THEN CHOOSE i \in 1..Len(Markers) :
            /\ Contains(line, Markers[i].marker)
            /\ \A j \in 1..(i - 1) : ~Contains(line, Markers[j].marker)
    ELSE 0

\* The body of the branch taken: parts = line.split(marker), and the
\* field is stored only when len(parts) == 2.
StoreField(entry, line, i) ==
    LET parts == Split(line, Markers[i].marker)
    IN IF Len(parts) = 2
       THEN DictSet(entry, Markers[i].key, Strip(parts[2]))
       ELSE entry

\* ParseField with an unmarked line appended to the detail data.
ParseFieldAppending(entry, line) ==
    LET i == FirstMarker(line)
    IN IF i = 0
       THEN DictSet(entry, "detail_data",
                    DictGet(entry, "detail_data", Str("")).s \o line)
       ELSE StoreField(entry, line, i)

\* A non-blank stripped line against the accumulator.
ParseField(entry, line) ==
    LET i == FirstMarker(line)
    IN IF i = 0 THEN entry ELSE StoreField(entry, line, i)

\* ShouldEmit without the test: every blank line emits the accumulator.
EmitAlways(entry) == TRUE

\* if current_entry: on a blank line and at the end of the input
ShouldEmit(entry) == DOMAIN entry # {}

(* ------------------- ErrptCollector._extract_severity ------------------ *)

UpperChar(c) ==
    CASE c = "a" -> "A" [] c = "b" -> "B" [] c = "c" -> "C" [] c = "d" -> "D"
      [] c = "e" -> "E" [] c = "f" -> "F" [] c = "g" -> "G" [] c = "h" -> "H"
      [] c = "i" -> "I" [] c = "j" -> "J" [] c = "k" -> "K" [] c = "l" -> "L"
      [] c = "m" -> "M" [] c = "n" -> "N" [] c = "o" -> "O" [] c = "p" -> "P"
      [] c = "q" -> "Q" [] c = "r" -> "R" [] c = "s" -> "S" [] c = "t" -> "T"
      [] c = "u" -> "U" [] c = "v" -> "V" [] c = "w" -> "W" [] c = "x" -> "X"
      [] c = "y" -> "Y" [] c = "z" -> "Z" [] OTHER -> c

\* str.upper()
RECURSIVE Upper(_)
Upper(s) ==
    IF Len(s) = 0 THEN ""
    ELSE UpperChar(CharAt(s, 1)) \o Upper(SubSeq(s, 2, Len(s)))

\* any(k in text for k in keywords)
AnyIn(keywords, text) == \E i \in 1..Len(keywords) : Contains(text, keywords[i])

\* the first element of the list that text contains
FirstIn(keywords, text) ==
    keywords[CHOOSE i \in 1..Len(keywords) :
                /\ Contains(text, keywords[i])
                /\ \A j \in 1..(i - 1) : ~Contains(text, keywords[j])]

\* SeverityLetters in the opposite order.
SeverityLettersReversed == <<"L", "M", "S", "H">>

SeverityLetters == <<"H", "S", "M", "L">>

\* ExtractSeverity with the keyword tests before the letter tests.
ExtractSeverityKeywordsFirst(error_id) ==
    IF error_id = "" THEN "UNKNOWN"
    ELSE LET u == Upper(error_id)
         IN IF AnyIn(<<"CRITICAL", "FATAL", "PANIC">>, u) THEN "H"
            ELSE IF AnyIn(<<"ERROR", "FAIL">>, u) THEN "S"
            ELSE IF AnyIn(<<"WARN", "WARNING">>, u) THEN "M"
            ELSE IF AnyIn(SeverityLetters, u) THEN FirstIn(SeverityLetters, u)
            ELSE "L"

\* ExtractSeverity with the ERROR/FAIL test before the CRITICAL/FATAL/PANIC
\* test.
ExtractSeverityErrorFirst(error_id) ==
    IF error_id = "" THEN "UNKNOWN"
    ELSE LET u == Upper(error_id)
         IN IF AnyIn(SeverityLetters, u) THEN FirstIn(SeverityLetters, u)
            ELSE IF AnyIn(<<"ERROR", "FAIL">>, u) THEN "S"
            ELSE IF AnyIn(<<"CRITICAL", "FATAL", "PANIC">>, u) THEN "H"
            ELSE IF AnyIn(<<"WARN", "WARNING">>, u) THEN "M"
            ELSE "L"

\* ExtractSeverity without the test for an empty identifier.
ExtractSeverityEmptyIsLow(error_id) ==
    LET u == Upper(error_id)
    IN IF AnyIn(SeverityLetters, u) THEN FirstIn(SeverityLetters, u)
       ELSE IF AnyIn(<<"CRITICAL", "FATAL", "PANIC">>, u) THEN "H"
       ELSE IF AnyIn(<<"ERROR", "FAIL">>, u) THEN "S"
       ELSE IF AnyIn(<<"WARN", "WARNING">>, u) THEN "M"
       ELSE "L"

\* _extract_severity(error_id)
ExtractSeverity(error_id) ==
    IF error_id = "" THEN "UNKNOWN"
    ELSE LET u == Upper(error_id)
         IN IF AnyIn(SeverityLetters, u) THEN FirstIn(SeverityLetters, u)
            ELSE IF AnyIn(<<"CRITICAL", "FATAL", "PANIC">>, u) THEN "H"
            ELSE IF AnyIn(<<"ERROR", "FAIL">>, u) THEN "S"
            ELSE IF AnyIn(<<"WARN", "WARNING">>, u) THEN "M"
            ELSE "L"

(* ------------------- ErrptCollector._process_errpt_data ---------------- *)

\* CleanUp testing v != '' in place of v: 0 and None are kept.
CleanUpEmptyStrings(d) == [k \in {x \in DOMAIN d : d[x] # Str("")} |-> d[k]]

\* {k: v for k, v in processed_entry.items() if v}
CleanUp(d) == [k \in {x \in DOMAIN d : Truthy(d[x])} |-> d[k]]

\* entry.get('error_id', '') as a Python str
ErrorIdOf(entry) == IF "error_id" \in DOMAIN entry THEN entry["error_id"] ELSE ""

\* One iteration of the loop of _process_errpt_data.
ProcessErrptEntry(entry, server) ==
    CleanUp(
      [severity |-> Str(ExtractSeverity(ErrorIdOf(entry))),
       error_id |-> DictGet(entry, "error_id", Str("")),
       resource_name |-> DictGet(entry, "resource_name", Str("")),
       description |-> DictGet(entry, "description", Str("")),
       resource_type |-> DictGet(entry, "resource_type", Str("")),
       resource_class |-> DictGet(entry, "resource_class", Str("")),
       sequence_number |-> DictGet(entry, "sequence_number", PyInt(0)),
       machine_id |-> DictGet(entry, "machine_id", Str("")),
       node_id |-> DictGet(entry, "node_id", Str("")),
       class |-> DictGet(entry, "class", Str("")),
       type |-> DictGet(entry, "type", Str("")),
       resource_id |-> DictGet(entry, "resource_id", Str("")),
       logical_resource_id |-> DictGet(entry, "logical_resource_id", Str("")),
       location_code |-> DictGet(entry, "location_code", Str("")),
       vpd |-> DictGet(entry, "vpd", Str("")),
       timestamp |-> DictGet(entry, "timestamp", Str("")),
       probable_causes |-> DictGet(entry, "probable_causes", Str("")),
       user_causes |-> DictGet(entry, "user_causes", Str("")),
       install_causes |-> DictGet(entry, "install_causes", Str("")),
       failure_causes |-> DictGet(entry, "failure_causes", Str("")),
       recommended_actions |-> DictGet(entry, "recommended_actions", Str("")),
       detail_data |-> DictGet(entry, "detail_data", Str("")),
       server_name |-> server.name,
       hostname |-> server.hostname])

\* _process_errpt_data(errpt_data, server_config)
ProcessErrptData(data, server) ==
    [i \in 1..Len(data) |-> ProcessErrptEntry(data[i], server)]

(* ------------------- SSHManager.collect_syslog_data -------------------- *)

\* The log files read when collect passes none.
DefaultLogFiles ==
    <<"/var/adm/ras/errlog", "/var/adm/ras/conslog", "/var/adm/messages">>

\* The wall-clock readings of successive calls of collect, five minutes
\* apart.
Times == <<"2026-11-01T06:00:00", "2026-11-01T06:05:00",
           "2026-11-01T06:10:00", "2026-11-01T06:15:00">>

\* datetime.now().isoformat() at collection time
CollectionTime == now

\* (success, stdout) of the two commands run for one log file, for what
\* the remote side does: the connection fails, the file is not readable,
\* tail exits non-zero, or tail prints the lines of out.
TestCommand(fo) ==
    CASE fo.kind = "noconn" -> [success |-> FALSE, stdout |-> ""]
      [] fo.kind = "not_exists" -> [success |-> TRUE, stdout |-> "not_exists"]
      [] OTHER -> [success |-> TRUE, stdout |-> "exists"]

TailCommand(fo) ==
    CASE fo.kind = "tailfail" -> [success |-> FALSE, stdout |-> ""]
      [] OTHER -> [success |-> TRUE, stdout |-> Strip(Join(fo.out, "\n"))]

\* The timestamp of an entry: the text between a leading '[' and the
\* first ']', otherwise the collection time.
EntryTimestamp(line) ==
    IF StartsAt(line, "[", 1) /\ Contains(line, "]")
    THEN SubSeq(line, 2, Find(line, "]") - 1)
    ELSE CollectionTime

\* The entry built for one non-blank stripped line.
SyslogEntry(log_file, line, server) ==
    [source |-> log_file, message |-> line, timestamp |-> EntryTimestamp(line),
     facility |-> "UNKNOWN", priority |-> "UNKNOWN", process_id |-> "",
     hostname |-> server.hostname]

\* The entries of the lines of one file, blank lines skipped.
RECURSIVE EntriesOf(_, _, _)
EntriesOf(log_file, ls, server) ==
    IF Len(ls) = 0 THEN <<>>
    ELSE LET line == Strip(Head(ls))
             rest == EntriesOf(log_file, Tail(ls), server)
         IN IF line = "" THEN rest
            ELSE <<SyslogEntry(log_file, line, server)>> \o rest

\* One iteration of the loop over the log files: the entries it adds.
FileEntries(log_file, fo, server) ==
    LET test == TestCommand(fo)
        tail == TailCommand(fo)
    IN IF ~test.success \/ Contains(test.stdout, "not_exists") THEN <<>>
       ELSE IF ~tail.success THEN <<>>
       ELSE EntriesOf(log_file, Split(tail.stdout, "\n"), server)

(* ------------------- SyslogCollector classifiers ----------------------- *)

LowerChar(c) ==
    CASE c = "A" -> "a" [] c = "B" -> "b" [] c = "C" -> "c" [] c = "D" -> "d"
      [] c = "E" -> "e" [] c = "F" -> "f" [] c = "G" -> "g" [] c = "H" -> "h"
      [] c = "I" -> "i" [] c = "J" -> "j" [] c = "K" -> "k" [] c = "L" -> "l"
      [] c = "M" -> "m" [] c = "N" -> "n" [] c = "O" -> "o" [] c = "P" -> "p"
      [] c = "Q" -> "q" [] c = "R" -> "r" [] c = "S" -> "s" [] c = "T" -> "t"
      [] c = "U" -> "u" [] c = "V" -> "v" [] c = "W" -> "w" [] c = "X" -> "x"
      [] c = "Y" -> "y" [] c = "Z" -> "z" [] OTHER -> c

\* str.lower()
RECURSIVE Lower(_)
Lower(s) ==
    IF Len(s) = 0 THEN ""
    ELSE LowerChar(CharAt(s, 1)) \o Lower(SubSeq(s, 2, Len(s)))

IsDigit(c) == c \in {"0", "1", "2", "3", "4", "5", "6", "7", "8", "9"}

\* \w
IsWord(c) == IsDigit(c) \/ c = "_" \/ LowerChar(c) # c \/ UpperChar(c) # c

\* log_patterns['aix_timestamp'], "d" standing for \d
TimestampShape == "[dd/dd/dddd-dd:dd:dd:ddd]"

TimestampAt(s, i) ==
    /\ i + Len(TimestampShape) - 1 <= Len(s)
    /\ \A k \in 1..Len(TimestampShape) :
          IF CharAt(TimestampShape, k) = "d"
          THEN IsDigit(CharAt(s, i + k - 1))
          ELSE CharAt(s, i + k - 1) = CharAt(TimestampShape, k)

\* re.search(aix_timestamp, message): group(1) of the first match, ""
\* when there is none
TimestampMatch(s) ==
    IF \E i \in 1..Len(s) : TimestampAt(s, i)
    THEN LET i == CHOOSE i \in 1..Len(s) :
                    TimestampAt(s, i) /\ \A j \in 1..(i - 1) : ~TimestampAt(s, j)
         IN SubSeq(s, i + 1, i + Len(TimestampShape) - 2)
    ELSE ""

\* the end of the longest run of characters of one class starting at i
\* (i - 1 when the run is empty)
RECURSIVE RunEnd(_, _, _)
RunEnd(s, i, digits) ==
    IF i <= Len(s) /\ (IF digits THEN IsDigit(CharAt(s, i)) ELSE IsWord(CharAt(s, i)))
    THEN RunEnd(s, i + 1, digits)
    ELSE i - 1

\* (\w+)\[(\d+)\] matched from position i: the word run from i ends at
\* a '[', which a non-empty digit run and a ']' follow
ProcessAt(s, i) ==
    LET w == RunEnd(s, i, FALSE)
        d == RunEnd(s, w + 2, TRUE)
    IN /\ w >= i
       /\ StartsAt(s, "[", w + 1)
       /\ d >= w + 2
       /\ StartsAt(s, "]", d + 1)

\* re.search(aix_process, message): the groups of the first match,
\* found FALSE when there is none
ProcessMatch(s) ==
    IF \E i \in 1..Len(s) : ProcessAt(s, i)
    THEN LET i == CHOOSE i \in 1..Len(s) :
                    ProcessAt(s, i) /\ \A j \in 1..(i - 1) : ~ProcessAt(s, j)
             w == RunEnd(s, i, FALSE)
             d == RunEnd(s, w + 2, TRUE)
         IN [found |-> TRUE, name |-> SubSeq(s, i, w), pid |-> SubSeq(s, w + 2, d)]
    ELSE [found |-> FALSE, name |-> "", pid |-> ""]

\* DetermineFacility with the message keywords tested before the source.
DetermineFacilityMessageFirst(source, message) ==
    LET src == Lower(source)
        msg == Lower(message)
    IN IF AnyIn(<<"kernel", "driver", "module">>, msg) THEN "KERNEL"
       ELSE IF AnyIn(<<"auth", "login", "password", "su">>, msg) THEN "AUTH"
       ELSE IF AnyIn(<<"mail", "smtp", "pop", "imap">>, msg) THEN "MAIL"
       ELSE IF AnyIn(<<"cron", "at", "batch">>, msg) THEN "CRON"
       ELSE IF AnyIn(<<"daemon", "service", "inetd">>, msg) THEN "DAEMON"
       ELSE IF Contains(src, "errlog") THEN "SYSTEM"
       ELSE IF Contains(src, "conslog") THEN "CONSOLE"
       ELSE IF Contains(src, "messages") THEN "SYSLOG"
       ELSE IF Contains(src, "authlog") THEN "AUTH"
       ELSE IF Contains(src, "mail") THEN "MAIL"
       ELSE IF Contains(src, "cron") THEN "CRON"
       ELSE IF Contains(src, "daemon") THEN "DAEMON"
       ELSE IF Contains(src, "kern") THEN "KERNEL"
       ELSE IF Contains(src, "user") THEN "USER"
       ELSE IF Contains(src, "local") THEN "LOCAL"
       ELSE "UNKNOWN"

\* _determine_facility(source, message)
DetermineFacility(source, message) ==
    LET src == Lower(source)
        msg == Lower(message)
    IN IF Contains(src, "errlog") THEN "SYSTEM"
       ELSE IF Contains(src, "conslog") THEN "CONSOLE"
       ELSE IF Contains(src, "messages") THEN "SYSLOG"
       ELSE IF Contains(src, "authlog") THEN "AUTH"
       ELSE IF Contains(src, "mail") THEN "MAIL"
       ELSE IF Contains(src, "cron") THEN "CRON"
       ELSE IF Contains(src, "daemon") THEN "DAEMON"
       ELSE IF Contains(src, "kern") THEN "KERNEL"
       ELSE IF Contains(src, "user") THEN "USER"
       ELSE IF Contains(src, "local") THEN "LOCAL"
       ELSE IF AnyIn(<<"kernel", "driver", "module">>, msg) THEN "KERNEL"
       ELSE IF AnyIn(<<"auth", "login", "password", "su">>, msg) THEN "AUTH"
       ELSE IF AnyIn(<<"mail", "smtp", "pop", "imap">>, msg) THEN "MAIL"
       ELSE IF AnyIn(<<"cron", "at", "batch">>, msg) THEN "CRON"
       ELSE IF AnyIn(<<"daemon", "service", "inetd">>, msg) THEN "DAEMON"
       ELSE "UNKNOWN"

\* DeterminePriority with the WARNING group tested before the ERR group.
DeterminePriorityWarnFirst(message) ==
    LET msg == Lower(message)
    IN IF AnyIn(<<"panic", "fatal", "emerg", "emergency">>, msg) THEN "EMERG"
       ELSE IF AnyIn(<<"alert", "critical", "crit">>, msg) THEN "ALERT"
       ELSE IF AnyIn(<<"warn", "warning">>, msg) THEN "WARNING"
       ELSE IF AnyIn(<<"error", "err", "fail", "failure">>, msg) THEN "ERR"
       ELSE IF AnyIn(<<"notice", "note">>, msg) THEN "NOTICE"
       ELSE IF AnyIn(<<"info", "information">>, msg) THEN "INFO"
       ELSE IF AnyIn(<<"debug", "trace">>, msg) THEN "DEBUG"
       ELSE "UNKNOWN"

\* _determine_priority(message)
DeterminePriority(message) ==
    LET msg == Lower(message)
    IN IF AnyIn(<<"panic", "fatal", "emerg", "emergency">>, msg) THEN "EMERG"
       ELSE IF AnyIn(<<"alert", "critical", "crit">>, msg) THEN "ALERT"
       ELSE IF AnyIn(<<"error", "err", "fail", "failure">>, msg) THEN "ERR"
       ELSE IF AnyIn(<<"warn", "warning">>, msg) THEN "WARNING"
       ELSE IF AnyIn(<<"notice", "note">>, msg) THEN "NOTICE"
       ELSE IF AnyIn(<<"info", "information">>, msg) THEN "INFO"
       ELSE IF AnyIn(<<"debug", "trace">>, msg) THEN "DEBUG"
       ELSE "UNKNOWN"

\* priority_to_level.get(priority, 'INFO')
PriorityToLevel(priority) ==
    CASE priority \in {"EMERG", "ALERT"} -> "CRITICAL"
      [] priority = "ERR" -> "ERROR"
      [] priority = "WARNING" -> "WARNING"
      [] priority \in {"NOTICE", "INFO"} -> "INFO"
      [] priority = "DEBUG" -> "DEBUG"
      [] OTHER -> "INFO"

\* DetermineLogLevel without the table: every message is INFO.
DetermineLogLevelInfo(message) == "INFO"

\* _determine_log_level(message)
DetermineLogLevel(message) == PriorityToLevel(DeterminePriority(message))

AixComponents ==
    <<"hacmp", "vios", "lpar", "aix", "power", "ibm", "network", "disk",
      "memory", "cpu", "filesystem", "security", "user", "group", "process",
      "service">>

\* _extract_component(message, source)
ExtractComponent(message, source) ==
    LET msg == Lower(message)
        pm == ProcessMatch(message)
    IN IF AnyIn(AixComponents, msg) THEN Upper(FirstIn(AixComponents, msg))
       ELSE IF pm.found /\ AnyIn(AixComponents, Lower(pm.name))
            THEN Upper(FirstIn(AixComponents, Lower(pm.name)))
       ELSE "SYSTEM"

\* DetermineErrorType with the test for a full disk moved to the front.
DetermineErrorTypeDiskFirst(message) ==
    LET msg == Lower(message)
    IN IF AnyIn(<<"disk full", "no space">>, msg) THEN "DISK_ERROR"
       ELSE IF AnyIn(<<"timeout", "timed out">>, msg) THEN "TIMEOUT"
       ELSE IF AnyIn(<<"connection refused", "connection failed">>, msg)
            THEN "CONNECTION_ERROR"
       ELSE IF AnyIn(<<"permission denied", "access denied">>, msg)
            THEN "PERMISSION_ERROR"
       ELSE IF AnyIn(<<"file not found", "no such file">>, msg) THEN "FILE_ERROR"
       ELSE IF AnyIn(<<"out of memory", "memory full">>, msg) THEN "MEMORY_ERROR"
       ELSE IF AnyIn(<<"network unreachable", "host unreachable">>, msg)
            THEN "NETWORK_ERROR"
       ELSE IF AnyIn(<<"service not available", "service down">>, msg)
            THEN "SERVICE_ERROR"
       ELSE "GENERAL"

\* _determine_error_type(message)
DetermineErrorType(message) ==
    LET msg == Lower(message)
    IN IF AnyIn(<<"timeout", "timed out">>, msg) THEN "TIMEOUT"
       ELSE IF AnyIn(<<"connection refused", "connection failed">>, msg)
            THEN "CONNECTION_ERROR"
       ELSE IF AnyIn(<<"permission denied", "access denied">>, msg)
            THEN "PERMISSION_ERROR"
       ELSE IF AnyIn(<<"file not found", "no such file">>, msg) THEN "FILE_ERROR"
       ELSE IF AnyIn(<<"out of memory", "memory full">>, msg) THEN "MEMORY_ERROR"
       ELSE IF AnyIn(<<"disk full", "no space">>, msg) THEN "DISK_ERROR"
       ELSE IF AnyIn(<<"network unreachable", "host unreachable">>, msg)
            THEN "NETWORK_ERROR"
       ELSE IF AnyIn(<<"service not available", "service down">>, msg)
            THEN "SERVICE_ERROR"
       ELSE "GENERAL"

(* ------------------- SyslogCollector._parse_log_message ---------------- *)

\* The extraction steps of the try block, in order.
ParseSteps == 7

\* The statements of step k applied to the dictionary parsed.
ParseStep(k, parsed, message, source) ==
    CASE k = 1 ->
            IF TimestampMatch(message) # ""
            THEN DictSet(parsed, "timestamp", TimestampMatch(message))
            ELSE parsed
      [] k = 2 ->
            IF ProcessMatch(message).found
            THEN DictSet(DictSet(parsed, "process_name", ProcessMatch(message).name),
                         "process_id", ProcessMatch(message).pid)
            ELSE parsed
      [] k = 3 -> DictSet(parsed, "facility", DetermineFacility(source, message))
      [] k = 4 -> DictSet(parsed, "priority", DeterminePriority(message))
      [] k = 5 -> DictSet(parsed, "log_level", DetermineLogLevel(message))
      [] k = 6 -> DictSet(parsed, "component", ExtractComponent(message, source))
      [] OTHER -> DictSet(parsed, "error_type", DetermineErrorType(message))

RECURSIVE ParseUpTo(_, _, _)
ParseUpTo(k, message, source) ==
    IF k = 0 THEN EmptyDict
    ELSE ParseStep(k, ParseUpTo(k - 1, message, source), message, source)

\* _parse_log_message(message, source) when step fail_at raises (0: no
\* step raises): the except clause logs, and the fields stored by the
\* steps before it are returned.
ParseLogMessage(message, source, fail_at) ==
    ParseUpTo(IF fail_at = 0 THEN ParseSteps ELSE fail_at - 1, message, source)

(* ------------------- SyslogCollector._process_syslog_data -------------- *)

\* ProcessSyslogEntry with raw_message taken from the lower-cased text
\* the classifiers work on.
ProcessSyslogEntryLowerRaw(entry, server, fail_at) ==
    LET parsed == ParseLogMessage(entry.message, entry.source, fail_at)
    IN CleanUp(
         [source |-> Str(entry.source),
          message |-> Str(entry.message),
          timestamp |-> Str(entry.timestamp),
          facility |-> DictGet(parsed, "facility", Str("UNKNOWN")),
          priority |-> DictGet(parsed, "priority", Str("UNKNOWN")),
          process_id |-> DictGet(parsed, "process_id", Str("")),
          hostname |-> server.hostname,
          server_name |-> server.name,
          log_level |-> DictGet(parsed, "log_level", Str("INFO")),
          component |-> DictGet(parsed, "component", Str("")),
          error_type |-> DictGet(parsed, "error_type", Str("")),
          raw_message |-> Str(Lower(entry.message))])

\* One iteration of the loop of _process_syslog_data.
ProcessSyslogEntry(entry, server, fail_at) ==
    LET parsed == ParseLogMessage(entry.message, entry.source, fail_at)
    IN CleanUp(
         [source |-> Str(entry.source),
          message |-> Str(entry.message),
          timestamp |-> Str(entry.timestamp),
          facility |-> DictGet(parsed, "facility", Str("UNKNOWN")),
          priority |-> DictGet(parsed, "priority", Str("UNKNOWN")),
          process_id |-> DictGet(parsed, "process_id", Str("")),
          hostname |-> server.hostname,
          server_name |-> server.name,
          log_level |-> DictGet(parsed, "log_level", Str("INFO")),
          component |-> DictGet(parsed, "component", Str("")),
          error_type |-> DictGet(parsed, "error_type", Str("")),
          raw_message |-> Str(entry.message)])

(* ------------------- ErrptCollector.collect, SyslogCollector.collect --- *)

\* What the storage write (db_manager.write_errpt_data or
\* write_syslog_data) does: returns True, returns False, or raises.
WriteOutcomes == {"true", "false", "raise"}

\* The words by which the messages of the two collectors differ.
ErrptWords == [data |-> "error report", plural |-> "error reports"]
SyslogWords == [data |-> "system log", plural |-> "system logs"]

\* ResultAfterWrite reporting len(processed_data) on every path.
ResultAfterWriteCounting(outcome, processed, server, words) ==
    [success |-> outcome = "true", records_collected |-> Len(processed),
     error_message |-> IF outcome = "true" THEN None ELSE Str("write failed")]

\* ResultAfterWrite with no message on the failure paths.
ResultAfterWriteSilent(outcome, processed, server, words) ==
    [success |-> outcome = "true",
     records_collected |-> IF outcome = "true" THEN Len(processed) ELSE 0,
     error_message |-> None]

\* The dictionary collect returns after the write: the if/else on the
\* value the write returned, and the except clause when it raised.
ResultAfterWrite(outcome, processed, server, words) ==
    CASE outcome = "true" ->
            [success |-> TRUE, records_collected |-> Len(processed),
             error_message |-> None]
      [] outcome = "false" ->
            [success |-> FALSE, records_collected |-> 0,
             error_message |->
                Str("Failed to write " \o words.data \o " data to database for "
                    \o PyStr(server.name))]
      [] OTHER ->
            [success |-> FALSE, records_collected |-> 0,
             error_message |->
                Str("Error collecting " \o words.plural \o " from "
                    \o PyStr(server.name) \o ": write failed")]

\* The dictionary collect returns when the collected list is empty.
ResultNoData ==
    [success |-> TRUE, records_collected |-> 0, error_message |-> None]

\* HasNoData without the test: collect never returns early.
NeverNoData(data) == FALSE

\* if not errpt_data: / if not syslog_data:
HasNoData(data) == Len(data) = 0

\* collect has not returned yet
NoResult == [success |-> FALSE, records_collected |-> -1, error_message |-> None]

\* AppendSyslogEntry skipping an entry whose parse raised.
AppendUnlessFailed(processed, entry, server, fail_at) ==
    IF fail_at = 0
    THEN Append(processed, ProcessSyslogEntry(entry, server, fail_at))
    ELSE processed

\* processed_data.append(processed_entry) of _process_syslog_data
AppendSyslogEntry(processed, entry, server, fail_at) ==
    Append(processed, ProcessSyslogEntry(entry, server, fail_at))

(* ------------------------------ inputs --------------------------------- *)

\* Lines the remote errpt command may print.
LineVocab ==
    { "", "  ",
      "IDENTIFIER: HW1",
      "Resource Type: x",
      " Class: Class:",
      "Timestamp:",
      "noise" }

Outputs == UNION { [1..n -> LineVocab] : n \in 0..MaxLines }

\* What the remote side does with the errpt command.
Remotes ==
    [kind : {"ok"}, out : Outputs, err : {""}]
    \cup [kind : {"nonzero"}, out : {<<>>, <<"IDENTIFIER: HW1">>},
          err : {"errpt: 0315-180 cannot open error log\n"}]
    \cup [kind : {"noconn", "timeout"}, out : {<<>>}, err : {""}]

\* Lines tail may print for a log file.
SysLineVocab ==
    { "",
      " sshd[4521]: authentication failure",
      "[01/02/2026-03:04:05:678] disk full",
      "[] ok" }

SysOutputs == UNION { [1..n -> SysLineVocab] : n \in 0..MaxEntries }

\* What the remote side does with the two commands of one log file.
FileOutcomes ==
    [kind : {"noconn", "not_exists", "tailfail"}, out : {<<>>}]
    \cup [kind : {"ok"}, out : SysOutputs]

\* The step of _parse_log_message that raises for an entry, 0 for none.
FailPoints == 0..ParseSteps

\* In collect the messages are the str lines collect_syslog_data built,
\* for which no step of _parse_log_message raises.
NoFailure == {0}

\* Lists a stubbed collect_errpt_data may return: partial records over
\* some of the keys, with empty and non-empty texts.
PartialKeys == {"error_id", "sequence_number", "class"}

PartialRecords ==
    UNION { [ks -> {"", "HW1"}] : ks \in SUBSET PartialKeys }

PartialLists == UNION { [1..n -> PartialRecords] : n \in 0..MaxRecords }

\* Error identifiers: up to MaxWords of these words, joined.
SevWords ==
    { "HARDWARE_FAULT", "timeout_fail", "ABC123", "PANIC", "ERROR", "WARN",
      "CRITICAL", "FATAL", "FAIL", "s", "-", "x9" }

SevInputs ==
    { Join(ws, "") : ws \in UNION { [1..n -> SevWords] : n \in 0..MaxWords } }

\* Lists a stubbed collect_syslog_data may return.
StubEntries ==
    [source : {"/var/adm/messages", "/var/log/authlog"},
     message : {"", "sshd[4521]: auth failure"},
     timestamp : {CollectionTime},
     facility : {"UNKNOWN"}, priority : {"UNKNOWN"}, process_id : {""},
     hostname : {Str("10.0.0.1")}]

StubLists == UNION { [1..n -> StubEntries] : n \in 0..MaxEntries }

(* ------------------------------ actions -------------------------------- *)

\* AIXLogCollector.stats after construction
InitStats ==
    [total_collections |-> 0, successful_collections |-> 0,
     failed_collections |-> 0, total_records |-> 0, last_collection |-> None]

\* The first call of collect, at the first clock reading.
FirstRun ==
    /\ now = Times[1]
    /\ run = 1
    /\ previous = <<>>

\* collect called on its own, outside collect_all_servers.
NoFleet ==
    /\ config = [aix_servers |-> <<>>, errpt_enabled |-> TRUE,
                 syslog_enabled |-> TRUE]
    /\ fleet_pc = "idle"
    /\ server_idx = 1
    /\ all_results = <<>>
    /\ stats = InitStats
    /\ calls = <<>>
    /\ invocations = <<>>

\* The connection pool of an SSHManager that was never asked for a
\* connection.
NoPool ==
    /\ max_connections = 10
    /\ connections = <<>>
    /\ clients_made = 0
    /\ pool_call = [op |-> "none", key |-> "", client |-> 0]

\* self.config = None
NoneConfig == [content |-> "none", defaults |-> "unset"]

\* A ConfigLoader on which load was never called, for a valid file.
NoLoader ==
    /\ config_file = "valid_a"
    /\ loader_config = NoneConfig
    /\ load_call = [op |-> "none", raised |-> FALSE, error |-> "",
                    value |-> NoneConfig, edited |-> FALSE]

\* start_scheduler was never called; the intervals are the defaults.
NoSched ==
    /\ intervals = [errpt_interval |-> 300, syslog_interval |-> 60]
    /\ jobs = <<>>
    /\ clock = 0
    /\ sched_pc = "init"
    /\ firing = [job |-> "none", at |-> 0, collected |-> <<>>]

\* The objects around the collectors, after construction and unused.
NoService ==
    /\ NoPool
    /\ NoLoader
    /\ NoSched

Init ==
    /\ FirstRun
    /\ NoFleet
    /\ NoService
    /\ collector \in {"errpt", "syslog"}
    /\ pc = "collect"
    /\ server_config \in Servers
    /\ remote \in IF collector = "errpt" THEN Remotes ELSE {{}}
    /\ lines = <<>>
    /\ idx = 1
    /\ current_entry = EmptyDict
    /\ errpt_data = <<>>
    /\ log_idx = 1
    /\ syslog_data = <<>>
    /\ processed_data = <<>>
    /\ write_calls = 0
    /\ written = <<>>
    /\ result = NoResult

\* RunErrpt with the list of records kept from the call before.
RunErrptKeepingRecords ==
    /\ collector = "errpt"
    /\ pc = "collect"
    /\ UNCHANGED errpt_data
    /\ LET r == ExecuteCommand(remote, server_config)
       IN IF ~r.success
          THEN /\ pc' = "collected"
               /\ UNCHANGED <<lines, current_entry, idx>>
          ELSE /\ pc' = "parse"
               /\ lines' = Split(r.stdout, "\n")
               /\ current_entry' = EmptyDict
               /\ idx' = 1
    /\ UNCHANGED <<rerunVars, fleetVars, serviceVars>>
    /\ UNCHANGED <<collector, server_config, remote, log_idx, syslog_data,
                   processed_data, write_calls, written, result>>

\* collect_errpt_data up to the loop: start from the empty list, run the
\* command; on failure return the list, otherwise split the output into
\* lines and start from the empty accumulator.
RunErrpt ==
    /\ collector = "errpt"
    /\ pc = "collect"
    /\ errpt_data' = <<>>
    /\ LET r == ExecuteCommand(remote, server_config)
       IN IF ~r.success
          THEN /\ pc' = "collected"
               /\ UNCHANGED <<lines, current_entry, idx>>
          ELSE /\ pc' = "parse"
               /\ lines' = Split(r.stdout, "\n")
               /\ current_entry' = EmptyDict
               /\ idx' = 1
    /\ UNCHANGED <<rerunVars, fleetVars, serviceVars>>
    /\ UNCHANGED <<collector, server_config, remote, log_idx, syslog_data,
                   processed_data, write_calls, written, result>>

\* One iteration of the for loop over the lines.
ParseLine ==
    /\ pc = "parse"
    /\ idx <= Len(lines)
    /\ LET line == Strip(lines[idx])
       IN IF line = ""
          THEN IF ShouldEmit(current_entry)
               THEN /\ errpt_data' = Append(errpt_data, current_entry)
                    /\ current_entry' = EmptyDict
               ELSE UNCHANGED <<errpt_data, current_entry>>
          ELSE /\ current_entry' = ParseField(current_entry, line)
               /\ UNCHANGED errpt_data
    /\ idx' = idx + 1
    /\ UNCHANGED <<rerunVars, fleetVars, serviceVars>>
    /\ UNCHANGED <<collector, pc, server_config, remote, lines, log_idx,
                   syslog_data, processed_data, write_calls, written, result>>

\* After the loop: add the last entry if it exists, and return.
ParseEnd ==
    /\ pc = "parse"
    /\ idx > Len(lines)
    /\ errpt_data' = IF ShouldEmit(current_entry)
                     THEN Append(errpt_data, current_entry)
                     ELSE errpt_data
    /\ pc' = "collected"
    /\ UNCHANGED <<rerunVars, fleetVars, serviceVars>>
    /\ UNCHANGED <<collector, server_config, remote, lines, idx,
                   current_entry, log_idx, syslog_data, processed_data,
                   write_calls, written, result>>

\* ErrptCollector.collect after collect_errpt_data returned: return at
\* once when there is no record, otherwise enrich the records.
ProcessOrReturn ==
    /\ pc = "collected"
    /\ IF HasNoData(errpt_data)
       THEN /\ result' = ResultNoData
            /\ pc' = "done"
            /\ UNCHANGED processed_data
       ELSE /\ processed_data' = ProcessErrptData(errpt_data, server_config)
            /\ pc' = "write"
            /\ UNCHANGED result
    /\ UNCHANGED <<rerunVars, fleetVars, serviceVars>>
    /\ UNCHANGED <<collector, server_config, remote, lines, idx,
                   current_entry, errpt_data, log_idx, syslog_data,
                   write_calls, written>>

\* One iteration of the loop of collect_syslog_data over the log files;
\* the first one starts from the empty list.
CollectLogFile ==
    /\ collector = "syslog"
    /\ pc = "collect"
    /\ log_idx <= Len(DefaultLogFiles)
    /\ \E fo \in FileOutcomes :
          LET new == FileEntries(DefaultLogFiles[log_idx], fo, server_config)
              old == IF log_idx = 1 THEN <<>> ELSE syslog_data
          IN /\ Len(old) + Len(new) <= MaxEntries
             /\ syslog_data' = old \o new
             /\ remote' = remote \cup ({fo.kind} \cap {"noconn", "tailfail"})
    /\ log_idx' = log_idx + 1
    /\ UNCHANGED <<rerunVars, fleetVars, serviceVars>>
    /\ UNCHANGED <<collector, pc, server_config, lines, idx, current_entry,
                   errpt_data, processed_data, write_calls, written, result>>

\* SyslogCollector.collect after collect_syslog_data returned: return
\* at once when there is no entry, otherwise start _process_syslog_data.
SysProcessOrReturn ==
    /\ collector = "syslog"
    /\ pc = "collect"
    /\ log_idx > Len(DefaultLogFiles)
    /\ IF HasNoData(syslog_data)
       THEN /\ result' = ResultNoData
            /\ pc' = "done"
            /\ UNCHANGED <<idx, processed_data>>
       ELSE /\ pc' = "process"
            /\ idx' = 1
            /\ processed_data' = <<>>
            /\ UNCHANGED result
    /\ UNCHANGED <<rerunVars, fleetVars, serviceVars>>
    /\ UNCHANGED <<collector, server_config, remote, lines, current_entry,
                   errpt_data, log_idx, syslog_data, write_calls, written>>

\* One iteration of the loop of _process_syslog_data; after the last
\* one the list is returned to collect.
ProcessSyslogStep(points) ==
    /\ pc = "process"
    /\ idx <= Len(syslog_data)
    /\ \E fail_at \in points :
          processed_data' =
             AppendSyslogEntry(processed_data, syslog_data[idx], server_config, fail_at)
    /\ idx' = idx + 1
    /\ pc' = IF idx = Len(syslog_data) THEN "write" ELSE "process"
    /\ UNCHANGED <<rerunVars, fleetVars, serviceVars>>
    /\ UNCHANGED <<collector, server_config, remote, lines, current_entry,
                   errpt_data, log_idx, syslog_data, write_calls, written,
                   result>>

\* WriteData with one call of the storage write for every record.
WriteDataPerRecord ==
    /\ pc = "write"
    /\ write_calls' = write_calls + Len(processed_data)
    /\ \E outcome \in WriteOutcomes :
          /\ written' = written \o
                [n \in 1..Len(processed_data) |->
                    [records |-> <<processed_data[n]>>, outcome |-> outcome]]
          /\ result' = ResultAfterWrite(outcome, processed_data, server_config,
                          IF collector = "errpt" THEN ErrptWords ELSE SyslogWords)
    /\ pc' = "done"
    /\ UNCHANGED <<rerunVars, fleetVars, serviceVars>>
    /\ UNCHANGED <<collector, server_config, remote, lines, idx,
                   current_entry, errpt_data, log_idx, syslog_data,
                   processed_data>>

\* The single call of the storage write and the return of collect.
WriteData ==
    /\ pc = "write"
    /\ write_calls' = write_calls + 1
    /\ \E outcome \in WriteOutcomes :
          /\ written' = Append(written, [records |-> processed_data,
                                         outcome |-> outcome])
          /\ result' = ResultAfterWrite(outcome, processed_data, server_config,
                          IF collector = "errpt" THEN ErrptWords ELSE SyslogWords)
    /\ pc' = "done"
    /\ UNCHANGED <<rerunVars, fleetVars, serviceVars>>
    /\ UNCHANGED <<collector, server_config, remote, lines, idx,
                   current_entry, errpt_data, log_idx, syslog_data,
                   processed_data>>

Next ==
    \/ RunErrpt
    \/ ParseLine
    \/ ParseEnd
    \/ ProcessOrReturn
    \/ CollectLogFile
    \/ SysProcessOrReturn
    \/ ProcessSyslogStep(NoFailure)
    \/ WriteData

Spec == Init /\ [][Next]_vars

(* --------- the collectors over a stubbed remote-execution service ------ *)

\* collect at the point where collect_errpt_data / collect_syslog_data
\* has returned a list the stub chose.
InitProcess ==
    /\ FirstRun
    /\ NoFleet
    /\ NoService
    /\ collector \in {"errpt", "syslog"}
    /\ pc = IF collector = "errpt" THEN "collected" ELSE "collect"
    /\ server_config \in Servers
    /\ remote = {}
    /\ lines = <<>>
    /\ idx = 1
    /\ current_entry = EmptyDict
    /\ errpt_data \in IF collector = "errpt" THEN PartialLists ELSE {<<>>}
    /\ log_idx = Len(DefaultLogFiles) + 1
    /\ syslog_data \in IF collector = "syslog" THEN StubLists ELSE {<<>>}
    /\ processed_data = <<>>
    /\ write_calls = 0
    /\ written = <<>>
    /\ result = NoResult

NextProcess ==
    \/ ProcessOrReturn
    \/ SysProcessOrReturn
    \/ ProcessSyslogStep(FailPoints)

SpecProcess == InitProcess /\ [][NextProcess]_vars

(* --------- the severity classifier, as _process_errpt_data applies it -- *)

\* collect at the point where collect_errpt_data has returned one record
\* that holds an error identifier.
InitSeverity ==
    /\ FirstRun
    /\ NoFleet
    /\ NoService
    /\ collector = "errpt"
    /\ pc = "collected"
    /\ server_config = [name |-> Str("aix1"), hostname |-> Str("10.0.0.1")]
    /\ remote = {}
    /\ lines = <<>>
    /\ idx = 1
    /\ current_entry = EmptyDict
    /\ errpt_data \in { <<[error_id |-> id]>> : id \in SevInputs }
    /\ log_idx = 1
    /\ syslog_data = <<>>
    /\ processed_data = <<>>
    /\ write_calls = 0
    /\ written = <<>>
    /\ result = NoResult

SpecSeverity == InitSeverity /\ [][ProcessOrReturn]_vars

(* --------- the system-log classifiers, as _process_syslog_data applies them *)

\* Lines of a log file, stripped and non-blank.
MsgVocab ==
    { "Jan sshd[4521]: authentication failure for user root",
      "[01/02/2026-03:04:05:678] disk full",
      "kernel: [01/02/2026-03:04:05:678] panic",
      "[] ok",
      "[boot] mail warning: login failed",
      "cron job done",
      "DEBUG Trace info notice",
      "Alert: FAILURE",
      "information",
      "debug",
      "WARN low",
      "disk full after user timed out" }

\* Log files collect_syslog_data may be given.
SrcVocab ==
    { "/var/adm/ras/errlog", "/var/adm/messages", "/var/log/authlog",
      "/var/spool/mail/cron.log", "/var/log/KERN_local", "/tmp/app.log" }

\* The lists collect_syslog_data builds from such lines.
BuiltLists(server) ==
    UNION { [1..n -> { SyslogEntry(src, line, server) :
                          src \in SrcVocab, line \in MsgVocab }] :
            n \in 1..MaxMsgs }

\* SyslogCollector.collect at the point where collect_syslog_data has
\* returned the entries of the lines it read.
InitSyslog ==
    /\ FirstRun
    /\ NoFleet
    /\ NoService
    /\ collector = "syslog"
    /\ pc = "collect"
    /\ server_config = [name |-> Str("aix1"), hostname |-> Str("10.0.0.1")]
    /\ remote = {}
    /\ lines = <<>>
    /\ idx = 1
    /\ current_entry = EmptyDict
    /\ errpt_data = <<>>
    /\ log_idx = Len(DefaultLogFiles) + 1
    /\ syslog_data \in BuiltLists(server_config)
    /\ processed_data = <<>>
    /\ write_calls = 0
    /\ written = <<>>
    /\ result = NoResult

NextSyslog ==
    \/ SysProcessOrReturn
    \/ ProcessSyslogStep(NoFailure)

SpecSyslog == InitSyslog /\ [][NextSyslog]_vars

(* --------- the error-report parser over the lines of errpt -a ---------- *)

\* Lines of the detailed error report: one per marker, a line that holds
\* two markers, a line that holds its marker twice, an unmarked line and
\* the blank line between reports.
FieldLines ==
    { "IDENTIFIER: A1B2", "Timestamp: 0101", "Sequence Number: 42",
      "Sequence Number: abc", "Machine Id: m", "Node Id: n", "Class: H",
      "Type: PERM", "Resource Name: hdisk0", "Resource Class: disk",
      "Resource Type: scsd", "Location: U1", "VPD: v",
      "Description: Timestamp: x", "Probable Causes: p", "User Causes: u",
      "Install Causes: i", "Failure Causes: f", "Recommended Actions: r",
      "Detail Data: d", "Class: Class:", "noise", "" }

FieldOutputs == UNION { [1..n -> FieldLines] : n \in 1..MaxFieldLines }

\* ErrptCollector.collect for a remote side that prints such lines and
\* exits with status 0.
InitParse ==
    /\ FirstRun
    /\ NoFleet
    /\ NoService
    /\ collector = "errpt"
    /\ pc = "collect"
    /\ server_config = [name |-> Str("aix1"), hostname |-> Str("10.0.0.1")]
    /\ remote \in [kind : {"ok"}, out : FieldOutputs, err : {""}]
    /\ lines = <<>>
    /\ idx = 1
    /\ current_entry = EmptyDict
    /\ errpt_data = <<>>
    /\ log_idx = 1
    /\ syslog_data = <<>>
    /\ processed_data = <<>>
    /\ write_calls = 0
    /\ written = <<>>
    /\ result = NoResult

NextParse ==
    \/ RunErrpt
    \/ ParseLine
    \/ ParseEnd
    \/ ProcessOrReturn

SpecParse == InitParse /\ [][NextParse]_vars

(* ------------------- AIXLogCollector.collect_from_server --------------- *)

\* A key the descriptor does not carry: server_config[key] raises KeyError.
Missing == [t |-> "missing", s |-> "", n |-> 0]

\* CollectionResult(server_name, collection_type, success,
\* records_collected, error_message)
CollectionResult(server_name, collection_type, success, records, message) ==
    [server_name |-> server_name, collection_type |-> collection_type,
     success |-> success, records_collected |-> records,
     error_message |-> message]

\* What a collaborator does for one server: test_connection returns
\* True or False or raises; a collector's collect returns a result
\* dictionary or raises.
ConnOutcomes == {"ok", "fail", "raise"}

CollectOutcomes ==
    { [raises |-> FALSE, result |-> [success |-> TRUE, records_collected |-> 1,
                                     error_message |-> None]],
      [raises |-> FALSE, result |-> [success |-> FALSE, records_collected |-> 0,
                                     error_message |-> Str("write failed")]],
      [raises |-> TRUE, result |-> NoResult] }

Behaviours == [conn : ConnOutcomes, errpt : CollectOutcomes, syslog : CollectOutcomes]

\* One of the two collection blocks of collect_from_server: the result
\* appended for the kind, from the dictionary collect returned or from
\* the exception it raised.
KindResult(server, kind, outcome) ==
    IF outcome.raises
    THEN CollectionResult(server.name, kind, FALSE, 0, Str("boom"))
    ELSE CollectionResult(server.name, kind, outcome.result.success,
                          outcome.result.records_collected,
                          outcome.result.error_message)

\* What a collection block adds to stats['total_records'].
KindRecords(outcome) ==
    IF ~outcome.raises /\ outcome.result.success
    THEN outcome.result.records_collected
    ELSE 0

\* CollectFromServer going on to the collectors after a failed
\* connection test.
CollectFromServerUntested(server, b, cfg) ==
    IF server.name = Missing \/ server.hostname = Missing
    THEN [raised |-> TRUE, tested |-> "none", invoked |-> <<>>, results |-> <<>>,
          records |-> 0]
    ELSE IF b.conn = "raise"
    THEN [raised |-> FALSE,
          tested |-> "raise",
          invoked |-> <<"test_connection">>,
          results |-> <<CollectionResult(server.name, "general", FALSE, 0, Str("boom"))>>,
          records |-> 0]
    ELSE [raised |-> FALSE,
          tested |-> b.conn,
          invoked |->
             <<"test_connection">>
             \o (IF cfg.errpt_enabled THEN <<"errpt_collector">> ELSE <<>>)
             \o (IF cfg.syslog_enabled THEN <<"syslog_collector">> ELSE <<>>),
          results |->
             (IF b.conn = "fail"
              THEN <<CollectionResult(server.name, "connection_test", FALSE, 0,
                        Str("SSH connection failed to " \o PyStr(server.hostname)))>>
              ELSE <<>>)
             \o (IF cfg.errpt_enabled THEN <<KindResult(server, "errpt", b.errpt)>>
                 ELSE <<>>)
             \o (IF cfg.syslog_enabled
                 THEN <<KindResult(server, "syslog", b.syslog)>> ELSE <<>>),
          records |->
             (IF cfg.errpt_enabled THEN KindRecords(b.errpt) ELSE 0)
             + (IF cfg.syslog_enabled THEN KindRecords(b.syslog) ELSE 0)]

\* collect_from_server(server_config): raised when it raises, else the
\* list it returns; tested is what the connection test did, invoked the
\* collaborators called, in order, and records what it adds to
\* stats['total_records'].
CollectFromServer(server, b, cfg) ==
    IF server.name = Missing \/ server.hostname = Missing
    THEN [raised |-> TRUE, tested |-> "none", invoked |-> <<>>, results |-> <<>>,
          records |-> 0]
    ELSE IF b.conn = "fail"
    THEN [raised |-> FALSE,
          tested |-> "fail",
          invoked |-> <<"test_connection">>,
          results |-> <<CollectionResult(server.name, "connection_test", FALSE, 0,
                           Str("SSH connection failed to " \o PyStr(server.hostname)))>>,
          records |-> 0]
    ELSE IF b.conn = "raise"
    THEN [raised |-> FALSE,
          tested |-> "raise",
          invoked |-> <<"test_connection">>,
          results |-> <<CollectionResult(server.name, "general", FALSE, 0, Str("boom"))>>,
          records |-> 0]
    ELSE [raised |-> FALSE,
          tested |-> "ok",
          invoked |->
             <<"test_connection">>
             \o (IF cfg.errpt_enabled THEN <<"errpt_collector">> ELSE <<>>)
             \o (IF cfg.syslog_enabled THEN <<"syslog_collector">> ELSE <<>>),
          results |->
             (IF cfg.errpt_enabled THEN <<KindResult(server, "errpt", b.errpt)>>
              ELSE <<>>)
             \o (IF cfg.syslog_enabled
                 THEN <<KindResult(server, "syslog", b.syslog)>> ELSE <<>>),
          records |->
             (IF cfg.errpt_enabled THEN KindRecords(b.errpt) ELSE 0)
             + (IF cfg.syslog_enabled THEN KindRecords(b.syslog) ELSE 0)]

(* ------------------- AIXLogCollector.collect_all_servers --------------- *)

\* The statistics after the for loop over the results of one server.
RECURSIVE StatsAfter(_, _)
StatsAfter(st, results) ==
    IF Len(results) = 0 THEN st
    ELSE LET r == Head(results)
             counted == [st EXCEPT !.total_collections = @ + 1]
         IN StatsAfter(
               IF r.success
               THEN [counted EXCEPT !.successful_collections = @ + 1]
               ELSE [counted EXCEPT !.failed_collections = @ + 1],
               Tail(results))

\* str(e) of the KeyError collect_from_server raises
KeyErrorText(server) ==
    IF server.name = Missing THEN "'name'" ELSE "'hostname'"

\* server_config.get('name', 'unknown')
NameOrUnknown(server) ==
    IF server.name = Missing THEN Str("unknown") ELSE server.name

\* The servers a configuration may list; the second one carries no
\* hostname.
FleetServers ==
    { [name |-> Str("aix1"), hostname |-> Str("10.0.0.1")],
      [name |-> Str("aix2"), hostname |-> Missing] }

Configs ==
    [aix_servers : UNION { [1..n -> FleetServers] : n \in 0..MaxServers },
     errpt_enabled : BOOLEAN, syslog_enabled : BOOLEAN]

\* AIXLogCollector after construction.
InitFleet ==
    /\ now = Times[1]
    /\ run = 1
    /\ previous = <<>>
    /\ NoService
    /\ config \in Configs
    /\ fleet_pc = "idle"
    /\ server_idx = 1
    /\ all_results = <<>>
    /\ stats = InitStats
    /\ calls = <<>>
    /\ invocations = <<>>
    /\ collector = "errpt"
    /\ pc = "done"
    /\ server_config = [name |-> Str("aix1"), hostname |-> Str("10.0.0.1")]
    /\ remote = {}
    /\ lines = <<>>
    /\ idx = 1
    /\ current_entry = EmptyDict
    /\ errpt_data = <<>>
    /\ log_idx = 1
    /\ syslog_data = <<>>
    /\ processed_data = <<>>
    /\ write_calls = 0
    /\ written = <<>>
    /\ result = NoResult

\* collect_all_servers up to its for loop.
CollectAllStart ==
    /\ fleet_pc = "idle"
    /\ run <= MaxRuns
    /\ fleet_pc' = "loop"
    /\ all_results' = <<>>
    /\ server_idx' = 1
    /\ calls' = <<>>
    /\ invocations' = <<>>
    /\ UNCHANGED <<config, stats, rerunVars, collectVars, serviceVars>>

\* CollectAllStep leaving the loop when collect_from_server raises.
CollectAllStepAborting ==
    /\ fleet_pc = "loop"
    /\ server_idx <= Len(config.aix_servers)
    /\ \E b \in Behaviours :
          LET server == config.aix_servers[server_idx]
              out == CollectFromServer(server, b, config)
              added == [stats EXCEPT !.total_records = @ + out.records]
          IN /\ invocations' =
                   Append(invocations, [tested |-> out.tested,
                                        invoked |-> out.invoked,
                                        results |-> out.results])
             /\ IF out.raised
                THEN /\ all_results' = Append(all_results,
                           CollectionResult(NameOrUnknown(server), "general", FALSE, 0,
                                            Str(KeyErrorText(server))))
                     /\ stats' = [added EXCEPT !.failed_collections = @ + 1]
                     /\ server_idx' = Len(config.aix_servers) + 1
                ELSE /\ all_results' = all_results \o out.results
                     /\ stats' = StatsAfter(added, out.results)
                     /\ server_idx' = server_idx + 1
    /\ calls' = Append(calls, server_idx)
    /\ UNCHANGED <<config, fleet_pc, rerunVars, collectVars, serviceVars>>

\* One iteration of the for loop of collect_all_servers: the call of
\* collect_from_server, then the try body or the except clause.
CollectAllStep ==
    /\ fleet_pc = "loop"
    /\ server_idx <= Len(config.aix_servers)
    /\ \E b \in Behaviours :
          LET server == config.aix_servers[server_idx]
              out == CollectFromServer(server, b, config)
              added == [stats EXCEPT !.total_records = @ + out.records]
          IN /\ invocations' =
                   Append(invocations, [tested |-> out.tested,
                                        invoked |-> out.invoked,
                                        results |-> out.results])
             /\ IF out.raised
                THEN /\ all_results' = Append(all_results,
                           CollectionResult(NameOrUnknown(server), "general", FALSE, 0,
                                            Str(KeyErrorText(server))))
                     /\ stats' = [added EXCEPT !.failed_collections = @ + 1]
                ELSE /\ all_results' = all_results \o out.results
                     /\ stats' = StatsAfter(added, out.results)
    /\ calls' = Append(calls, server_idx)
    /\ server_idx' = server_idx + 1
    /\ UNCHANGED <<config, fleet_pc, rerunVars, collectVars, serviceVars>>

\* collect_all_servers after the loop: set last_collection and return.
CollectAllReturn ==
    /\ fleet_pc = "loop"
    /\ server_idx > Len(config.aix_servers)
    /\ stats' = [stats EXCEPT !.last_collection = Str(now)]
    /\ fleet_pc' = "idle"
    /\ run' = run + 1
    /\ UNCHANGED <<config, server_idx, all_results, calls, invocations, now,
                   previous, collectVars, serviceVars>>

NextFleet ==
    \/ CollectAllStart
    \/ CollectAllStep
    \/ CollectAllReturn

SpecFleet == InitFleet /\ [][NextFleet]_vars

(* ------------- the same collection repeated by the scheduler ------------ *)

\* Lines of the error report printed alike at every run.
RerunLines ==
    { "IDENTIFIER: A1B2", "Sequence Number: 42", "Description: Timestamp: x",
      "Class: Class:", "noise", "" }

RerunOutputs == UNION { [1..n -> RerunLines] : n \in 1..MaxFieldLines }

\* Lines of a log file read alike at every run, with and without a
\* leading bracket.
RerunMsgs ==
    { "Jan sshd[4521]: authentication failure for user root",
      "[01/02/2026-03:04:05:678] disk full",
      "kernel: [01/02/2026-03:04:05:678] panic",
      "[] ok" }

RerunSrcs == { "/var/adm/messages", "/var/log/authlog" }

\* The entries collect_syslog_data builds from such lines at the current
\* clock reading.
RerunLists(server) ==
    UNION { [1..n -> { SyslogEntry(src, line, server) :
                          src \in RerunSrcs, line \in RerunMsgs }] :
            n \in 1..MaxMsgs }

\* The records a finished call of collect has produced.
RecordsOfRun == IF result = ResultNoData THEN <<>> ELSE processed_data

InitRerun ==
    /\ FirstRun
    /\ NoFleet
    /\ NoService
    /\ collector \in {"errpt", "syslog"}
    /\ pc = "collect"
    /\ server_config = [name |-> Str("aix1"), hostname |-> Str("10.0.0.1")]
    /\ remote \in IF collector = "errpt"
                  THEN [kind : {"ok"}, out : RerunOutputs, err : {""}]
                  ELSE {{}}
    /\ lines = <<>>
    /\ idx = 1
    /\ current_entry = EmptyDict
    /\ errpt_data = <<>>
    /\ log_idx = IF collector = "errpt" THEN 1 ELSE Len(DefaultLogFiles) + 1
    /\ syslog_data \in IF collector = "errpt" THEN {<<>>}
                       ELSE RerunLists(server_config)
    /\ processed_data = <<>>
    /\ write_calls = 0
    /\ written = <<>>
    /\ result = NoResult

\* The scheduler calls collect again, at a later clock reading, on a
\* remote side that answers as before: the error report prints the same
\* lines, and the log files hold the same lines, of which
\* collect_syslog_data builds its entries anew. Whatever the objects
\* kept from the call before stays as it is.
Rerun ==
    /\ pc = "done"
    /\ run < MaxRuns
    /\ previous' = RecordsOfRun
    /\ run' = run + 1
    /\ now' = Times[run + 1]
    /\ pc' = "collect"
    /\ result' = NoResult
    /\ write_calls' = 0
    /\ written' = <<>>
    /\ UNCHANGED <<fleetVars, serviceVars>>
    /\ UNCHANGED <<collector, server_config, remote, lines, idx,
                   current_entry, errpt_data, log_idx, processed_data>>
    /\ IF collector = "syslog"
       THEN \E again \in RerunLists(server_config)' :
               /\ Len(again) = Len(syslog_data)
               /\ \A n \in 1..Len(again) :
                     /\ again[n].source = syslog_data[n].source
                     /\ again[n].message = syslog_data[n].message
               /\ syslog_data' = again
       ELSE UNCHANGED syslog_data

NextRerun ==
    \/ RunErrpt
    \/ ParseLine
    \/ ParseEnd
    \/ ProcessOrReturn
    \/ SysProcessOrReturn
    \/ ProcessSyslogStep(NoFailure)
    \/ WriteData
    \/ Rerun

SpecRerun == InitRerun /\ [][NextRerun]_vars

(* ------------------- SSHManager: the connection pool ------------------- *)

\* No call of collect or of collect_all_servers is under way.
NoCollect ==
    /\ FirstRun
    /\ NoFleet
    /\ collector = "errpt"
    /\ pc = "done"
    /\ server_config = [name |-> Str("aix1"), hostname |-> Str("10.0.0.1")]
    /\ remote = {}
    /\ lines = <<>>
    /\ idx = 1
    /\ current_entry = EmptyDict
    /\ errpt_data = <<>>
    /\ log_idx = 1
    /\ syslog_data = <<>>
    /\ processed_data = <<>>
    /\ write_calls = 0
    /\ written = <<>>
    /\ result = NoResult

\* Server descriptors get_connection is called with; the port is given
\* as the text str() makes of it.
PoolServers ==
    [hostname : {"10.0.0.1", "10.0.0.2", "10.0.0.3"}, port : {"22"},
     username : {"root"}]

\* _get_connection_key(server_config)
ConnectionKey(server) ==
    server.hostname \o ":" \o server.port \o ":" \o server.username

\* the keys of the dictionary
KeysIn(conns) == { conns[i].key : i \in 1..Len(conns) }

\* self.connections[connection_key]
StoredClient(conns, k) ==
    conns[CHOOSE i \in 1..Len(conns) : conns[i].key = k].client

\* del self.connections[connection_key]
Without(conns, k) == SelectSeq(conns, LAMBDA e : e.key # k)

\* MakeRoom closing the entry inserted last.
MakeRoomNewest(conns, max) ==
    IF Len(conns) >= max THEN SubSeq(conns, 1, Len(conns) - 1) ELSE conns

\* The pool-size check: when the pool is full, the entry next(iter())
\* yields, the one inserted first, is closed and deleted.
MakeRoom(conns, max) ==
    IF Len(conns) >= max THEN Tail(conns) ELSE conns

\* SSHManager after construction with max_concurrent_connections >= 1.
InitPool ==
    /\ NoCollect
    /\ NoLoader
    /\ NoSched
    /\ max_connections \in 1..MaxPool
    /\ connections = <<>>
    /\ clients_made = 0
    /\ pool_call = [op |-> "none", key |-> "", client |-> 0]

\* get_connection(server_config): a stored client that answers the test
\* command is returned; a dead one is deleted; then room is made, a new
\* client is created and, when that succeeded, stored under the key.
GetConnection ==
    /\ \E server \in PoolServers, alive \in BOOLEAN, created \in BOOLEAN :
          LET k == ConnectionKey(server)
          IN IF k \in KeysIn(connections) /\ alive
             THEN /\ pool_call' = [op |-> "get", key |-> k,
                                   client |-> StoredClient(connections, k)]
                  /\ UNCHANGED <<connections, clients_made>>
             ELSE LET room == MakeRoom(Without(connections, k), max_connections)
                  IN IF created /\ clients_made < MaxClients
                     THEN /\ clients_made' = clients_made + 1
                          /\ connections' =
                                Append(room, [key |-> k, client |-> clients_made + 1])
                          /\ pool_call' = [op |-> "get", key |-> k,
                                           client |-> clients_made + 1]
                     ELSE /\ connections' = room
                          /\ pool_call' = [op |-> "get", key |-> k, client |-> 0]
                          /\ UNCHANGED clients_made
    /\ UNCHANGED <<max_connections, collectVars, rerunVars, fleetVars,
                   loaderVars, schedVars>>

\* close_all_connections()
CloseAllConnections ==
    /\ connections' = <<>>
    /\ pool_call' = [op |-> "close", key |-> "", client |-> 0]
    /\ UNCHANGED <<max_connections, clients_made, collectVars, rerunVars,
                   fleetVars, loaderVars, schedVars>>

NextPool ==
    \/ GetConnection
    \/ CloseAllConnections

SpecPool == InitPool /\ [][NextPool]_vars

(* ------------------------------ ConfigLoader --------------------------- *)

\* What the configuration file may hold: no file at all; text that is
\* not YAML; an empty document, which yaml.safe_load reads as None; a
\* list; a dictionary whose first server has no hostname; a dictionary
\* that passes the validation but gives collection.errpt a truth value
\* where _set_defaults expects a dictionary; two valid configurations.
ConfigFiles ==
    { "missing", "unparsable", "empty", "not_dict", "no_hostname",
      "bad_errpt", "valid_a", "valid_b" }

\* yaml.safe_load(f) of a file that exists and parses
SafeLoad(file) ==
    IF file = "empty" THEN NoneConfig
    ELSE [content |-> file, defaults |-> "unset"]

\* _validate_config() returns without raising
Validates(cfg) == cfg.content \in {"bad_errpt", "valid_a", "valid_b"}

\* _set_defaults() returns without raising
DefaultsApply(cfg) == cfg.content # "bad_errpt"

\* load() on a loader whose config attribute is cfg, for the file: the
\* attribute afterwards, whether the call raised and in which step, and
\* the value returned.
LoadFrom(cfg, file) ==
    IF cfg # NoneConfig
    THEN [config |-> cfg, raised |-> FALSE, error |-> "", value |-> cfg]
    ELSE IF file = "missing"
    THEN [config |-> cfg, raised |-> TRUE, error |-> "not_found",
          value |-> NoneConfig]
    ELSE IF file = "unparsable"
    THEN [config |-> cfg, raised |-> TRUE, error |-> "yaml", value |-> NoneConfig]
    ELSE LET read == SafeLoad(file)
         IN IF ~Validates(read)
            THEN [config |-> read, raised |-> TRUE, error |-> "validation",
                  value |-> NoneConfig]
            ELSE IF ~DefaultsApply(read)
            THEN [config |-> [read EXCEPT !.defaults = "partial"],
                  raised |-> TRUE, error |-> "defaults", value |-> NoneConfig]
            ELSE LET done == [read EXCEPT !.defaults = "set"]
                 IN [config |-> done, raised |-> FALSE, error |-> "",
                     value |-> done]

\* The record of a call that ended as out.
LoadCall(op, out) ==
    [op |-> op, raised |-> out.raised, error |-> out.error,
     value |-> out.value, edited |-> FALSE]

\* ConfigLoader after construction, for any file.
InitLoader ==
    /\ NoCollect
    /\ NoPool
    /\ NoSched
    /\ config_file \in ConfigFiles
    /\ loader_config = NoneConfig
    /\ load_call = [op |-> "none", raised |-> FALSE, error |-> "",
                    value |-> NoneConfig, edited |-> FALSE]

\* load()
Load ==
    /\ LET out == LoadFrom(loader_config, config_file)
       IN /\ loader_config' = out.config
          /\ load_call' = LoadCall("load", out)
    /\ UNCHANGED <<config_file, poolVars, schedVars, collectVars, rerunVars,
                   fleetVars>>

\* reload(): self.config = None, then load()
Reload ==
    /\ LET out == LoadFrom(NoneConfig, config_file)
       IN /\ loader_config' = out.config
          /\ load_call' = LoadCall("reload", out)
    /\ UNCHANGED <<config_file, poolVars, schedVars, collectVars, rerunVars,
                   fleetVars>>

\* Somebody rewrites, removes or creates the configuration file.
EditFile ==
    /\ config_file' \in ConfigFiles \ {config_file}
    /\ load_call' = [load_call EXCEPT !.edited = TRUE]
    /\ UNCHANGED <<loader_config, poolVars, schedVars, collectVars, rerunVars,
                   fleetVars>>

NextLoader ==
    \/ Load
    \/ Reload
    \/ EditFile

SpecLoader == InitLoader /\ [][NextLoader]_vars

(* ------------------- AIXLogCollector.start_scheduler ------------------- *)

\* collect_all_servers() as one call: the for loop over aix_servers from
\* server i on, acc being all_results, stats and the calls made so far.
RECURSIVE CollectAllServers(_, _, _, _)
CollectAllServers(cfg, bs, i, acc) ==
    IF i > Len(cfg.aix_servers)
    THEN [acc EXCEPT !.stats.last_collection = Str(Times[1])]
    ELSE LET server == cfg.aix_servers[i]
             out == CollectFromServer(server, bs[i], cfg)
             added == [acc.stats EXCEPT !.total_records = @ + out.records]
         IN CollectAllServers(cfg, bs, i + 1,
               [all_results |->
                   IF out.raised
                   THEN Append(acc.all_results,
                           CollectionResult(NameOrUnknown(server), "general", FALSE,
                                            0, Str(KeyErrorText(server))))
                   ELSE acc.all_results \o out.results,
                stats |->
                   IF out.raised
                   THEN [added EXCEPT !.failed_collections = @ + 1]
                   ELSE StatsAfter(added, out.results),
                calls |-> Append(acc.calls, i),
                invocations |->
                   Append(acc.invocations, [tested |-> out.tested,
                                            invoked |-> out.invoked,
                                            results |-> out.results])])

\* The collectors whose collect was called during one
\* collect_all_servers(), in call order.
RECURSIVE CollectorsCalled(_)
CollectorsCalled(invs) ==
    IF Len(invs) = 0 THEN <<>>
    ELSE SelectSeq(Head(invs).invoked, LAMBDA c : c # "test_connection")
         \o CollectorsCalled(Tail(invs))

\* schedule.every(n).seconds.do(f): the job runs f, first n seconds from
\* now and then n seconds after each run.
Every(name, n, at) == [name |-> name, interval |-> n, next_run |-> at + n]

\* Job.should_run
ShouldRun(job) == clock >= job.next_run

\* sorted(runnable_jobs)[0]: the due job with the earliest next_run, the
\* one registered first among equals.
FirstRunnable(j) ==
    /\ ShouldRun(jobs[j])
    /\ \A k \in DOMAIN jobs :
          ShouldRun(jobs[k]) =>
             \/ jobs[j].next_run < jobs[k].next_run
             \/ jobs[j].next_run = jobs[k].next_run /\ j <= k

\* The configurations the scheduler is started with: one
\* server entry, either kind enabled or not.
SchedConfigs ==
    [aix_servers : { <<s>> : s \in FleetServers },
     errpt_enabled : BOOLEAN, syslog_enabled : BOOLEAN]

Intervals == 1..MaxInterval

\* AIXLogCollector after construction, start_scheduler not yet called.
InitSched ==
    /\ FirstRun
    /\ NoPool
    /\ NoLoader
    /\ collector = "errpt"
    /\ pc = "done"
    /\ server_config = [name |-> Str("aix1"), hostname |-> Str("10.0.0.1")]
    /\ remote = {}
    /\ lines = <<>>
    /\ idx = 1
    /\ current_entry = EmptyDict
    /\ errpt_data = <<>>
    /\ log_idx = 1
    /\ syslog_data = <<>>
    /\ processed_data = <<>>
    /\ write_calls = 0
    /\ written = <<>>
    /\ result = NoResult
    /\ config \in SchedConfigs
    /\ fleet_pc = "idle"
    /\ server_idx = 1
    /\ all_results = <<>>
    /\ stats = InitStats
    /\ calls = <<>>
    /\ invocations = <<>>
    /\ intervals \in [errpt_interval : Intervals, syslog_interval : Intervals]
    /\ jobs = <<>>
    /\ clock = 0
    /\ sched_pc = "init"
    /\ firing = [job |-> "none", at |-> 0, collected |-> <<>>]

\* start_scheduler() up to its while loop: both jobs are registered with
\* run_scheduled_collection.
StartScheduler ==
    /\ sched_pc = "init"
    /\ jobs' = << Every("errpt_interval", intervals.errpt_interval, clock),
                 Every("syslog_interval", intervals.syslog_interval, clock) >>
    /\ sched_pc' = "loop"
    /\ UNCHANGED <<intervals, clock, firing, poolVars, loaderVars, collectVars,
                   rerunVars, fleetVars>>

\* schedule.run_pending() running one due job: run_scheduled_collection
\* calls collect_all_servers, then the job is scheduled again.
RunPending ==
    /\ sched_pc = "loop"
    /\ \E j \in DOMAIN jobs :
          /\ FirstRunnable(j)
          /\ \E bs \in [1..Len(config.aix_servers) -> Behaviours] :
                LET out == CollectAllServers(config, bs, 1,
                              [all_results |-> <<>>, stats |-> stats,
                               calls |-> <<>>, invocations |-> <<>>])
                IN /\ all_results' = out.all_results
                   /\ stats' = out.stats
                   /\ calls' = out.calls
                   /\ invocations' = out.invocations
                   /\ firing' = [job |-> jobs[j].name, at |-> clock,
                                 collected |-> CollectorsCalled(out.invocations)]
          /\ jobs' = [jobs EXCEPT ![j].next_run = clock + jobs[j].interval]
    /\ UNCHANGED <<intervals, clock, sched_pc, config, fleet_pc, server_idx,
                   poolVars, loaderVars, collectVars, rerunVars>>

\* time.sleep(1) once no job is due any more
Sleep ==
    /\ sched_pc = "loop"
    /\ \A j \in DOMAIN jobs : ~ShouldRun(jobs[j])
    /\ clock < MaxClock
    /\ clock' = clock + 1
    /\ UNCHANGED <<intervals, jobs, sched_pc, firing, poolVars, loaderVars,
                   collectVars, rerunVars, fleetVars>>

NextSched ==
    \/ StartScheduler
    \/ RunPending
    \/ Sleep

SpecSched == InitSched /\ [][NextSched]_vars

(* ------------------------------ claims --------------------------------- *)

\* the error-report parser has consumed the whole output of a command
\* that exited with status 0
ParsedOutput ==
    /\ collector = "errpt"
    /\ pc \in {"collected", "write", "done"}
    /\ remote.kind = "ok"

IsBlank(line) == Strip(line) = ""

\* the first lines of the blocks of the output
BlockStarts ==
    { i \in 1..Len(lines) :
        ~IsBlank(lines[i]) /\ (i = 1 \/ IsBlank(lines[i - 1])) }

\* the lines of the block that starts at b
BlockLines(b) ==
    { i \in b..Len(lines) : \A j \in b..i : ~IsBlank(lines[j]) }

\* the start of the n-th block
NthBlock(n) ==
    CHOOSE b \in BlockStarts : Cardinality({x \in BlockStarts : x <= b}) = n

\* the markers a line contains
MarkersIn(line) ==
    { m \in 1..Len(Markers) : Contains(Strip(line), Markers[m].marker) }

\* the keys of the markers that appear in the block that starts at b
KeysOfBlock(b) ==
    { Markers[m].key : m \in UNION { MarkersIn(lines[i]) : i \in BlockLines(b) } }

\* C1: an output of N blocks separated by blank lines, each holding a
\* line with a field marker, is parsed into exactly N records, in source
\* order, the n-th record holding only keys of markers of the n-th block.
C1_BlocksBecomeRecords ==
    (/\ ParsedOutput
     /\ \A b \in BlockStarts : \E i \in BlockLines(b) : MarkersIn(lines[i]) # {})
    => /\ Len(errpt_data) = Cardinality(BlockStarts)
       /\ \A n \in 1..Len(errpt_data) :
             /\ DOMAIN errpt_data[n] # {}
             /\ DOMAIN errpt_data[n] \subseteq KeysOfBlock(NthBlock(n))

\* C2: no emitted record is empty, and an output in which no line
\* matches a marker (blank lines only, or unmarked lines only) yields
\* zero records.
C2_NoEmptyRecord ==
    /\ \A n \in 1..Len(errpt_data) : DOMAIN errpt_data[n] # {}
    /\ (ParsedOutput /\ \A i \in 1..Len(lines) : MarkersIn(lines[i]) = {})
       => errpt_data = <<>>

\* C2 witness: the parser went over two consecutive blank lines after a
\* block and emitted that block once.
C2_ConsecutiveBlanks ==
    /\ ParsedOutput
    /\ Len(errpt_data) = 1
    /\ \E i \in 1..(Len(lines) - 1) : IsBlank(lines[i]) /\ IsBlank(lines[i + 1])

\* v is the empty string, numeric zero or None
IsEmptyValue(v) ==
    \/ v.t = "str" /\ v.s = ""
    \/ v.t = "int" /\ v.n = 0
    \/ v.t = "none"

\* C3: no final record of either kind holds a key whose value is the
\* empty string, numeric zero or None.
C3_NoEmptyValue ==
    \A n \in 1..Len(processed_data) :
       \A k \in DOMAIN processed_data[n] : ~IsEmptyValue(processed_data[n][k])

\* C3 witness: an error-report record whose error_id is empty and whose
\* sequence_number is missing, of a server with no name and no hostname,
\* was enriched: only its severity is left.
C3_AllDropped ==
    /\ collector = "errpt"
    /\ pc = "write"
    /\ DOMAIN errpt_data[1] = {"error_id"}
    /\ errpt_data[1]["error_id"] = ""
    /\ server_config.hostname = None
    /\ DOMAIN processed_data[1] = {"severity"}

\* the command of the collection failed: a non-zero exit status, no
\* connection, or a timeout
RemoteFailed ==
    \/ collector = "errpt" /\ remote.kind \in {"nonzero", "noconn", "timeout"}
    \/ collector = "syslog" /\ remote # {}

\* C4: when the remote command exits non-zero or the connection cannot be
\* established or times out, collect returns success = false and a
\* non-empty error_message.
C4_FailureReported ==
    (pc = "done" /\ RemoteFailed)
    => /\ result.success = FALSE
       /\ result.error_message.t = "str"
       /\ result.error_message.s # ""

\* the records the parser handed to enrichment
CollectedCount ==
    IF collector = "errpt" THEN Len(errpt_data) ELSE Len(syslog_data)

\* C5: when the storage write returns false or raises, collect returns
\* success = false and records_collected = 0 whatever the parser
\* produced; records_collected is the number of records only when the
\* write reported success.
C5_WriteFailureReportsZero ==
    pc = "done"
    => /\ \A w \in 1..Len(written) :
             IF written[w].outcome = "true"
             THEN /\ result.success
                  /\ result.records_collected = CollectedCount
             ELSE /\ ~result.success
                  /\ result.records_collected = 0
       /\ result.records_collected > 0
             => Len(written) = 1 /\ written[1].outcome = "true"

\* C5 witness: the write raised for a batch of two records and collect
\* reported failure with zero records.
C5_RaisedWithRecords ==
    /\ pc = "done"
    /\ Len(written) = 1
    /\ written[1].outcome = "raise"
    /\ Len(written[1].records) = 2
    /\ ~result.success
    /\ result.records_collected = 0

\* the characters of a string
Chars(s) == { CharAt(s, i) : i \in 1..Len(s) }

\* the identifier handed to the classifier and the severity it got
ClassifiedId == errpt_data[1]["error_id"]
ClassifiedSeverity == processed_data[1]["severity"].s

\* C6: for a non-empty error_id whose upper-cased form holds one of the
\* letters H, S, M, L, the severity is the first of them, in that order,
\* that occurs anywhere in it; HARDWARE_FAULT is H.
C6_FirstLetterWins ==
    pc = "write"
    => LET cs == Chars(Upper(ClassifiedId))
       IN /\ "H" \in cs => ClassifiedSeverity = "H"
          /\ ("S" \in cs /\ "H" \notin cs) => ClassifiedSeverity = "S"
          /\ ("M" \in cs /\ cs \cap {"H", "S"} = {}) => ClassifiedSeverity = "M"
          /\ ("L" \in cs /\ cs \cap {"H", "S", "M"} = {})
                => ClassifiedSeverity = "L"
          /\ ClassifiedId = "HARDWARE_FAULT" => ClassifiedSeverity = "H"

\* C6 witness: an identifier with the keyword WARN and a lower-case s
\* from another token was classified S.
C6_UnrelatedS ==
    /\ pc = "write"
    /\ ClassifiedId = "WARNs"
    /\ ClassifiedSeverity = "S"

\* C7 as stated: error_id timeout_fail is classified S by the keyword
\* FAIL.
C7_TimeoutFailIsS ==
    (pc = "write" /\ ClassifiedId = "timeout_fail") => ClassifiedSeverity = "S"

\* C7 as amended: error_id timeout_fail is classified M; TIMEOUT_FAIL
\* holds the letters M and L and neither H nor S, so the letter test
\* decides and the keyword FAIL is not consulted.
C7_TimeoutFailIsM ==
    (pc = "write" /\ ClassifiedId = "timeout_fail")
    => /\ ClassifiedSeverity = "M"
       /\ {"M", "L"} \subseteq Chars(Upper(ClassifiedId))
       /\ Chars(Upper(ClassifiedId)) \cap {"H", "S"} = {}

\* C7 witness: timeout_fail went through the classifier.
C7_TimeoutFailClassified ==
    /\ pc = "write"
    /\ ClassifiedId = "timeout_fail"
    /\ ClassifiedSeverity \in {"H", "S", "M", "L"}

\* the severity the keywords of an upper-cased identifier stand for
KeywordSeverity(u) ==
    IF Contains(u, "CRITICAL") \/ Contains(u, "FATAL") \/ Contains(u, "PANIC")
    THEN "H"
    ELSE IF Contains(u, "ERROR") \/ Contains(u, "FAIL") THEN "S"
    ELSE IF Contains(u, "WARN") THEN "M"
    ELSE "L"

\* no letter H, S, M or L in the upper-cased identifier
NoSeverityLetter(id) == Chars(Upper(id)) \cap {"H", "S", "M", "L"} = {}

\* C8: a non-empty error_id without any of the letters H, S, M, L gets
\* the severity of its keywords, tested in the order CRITICAL/FATAL/PANIC
\* (H), ERROR/FAIL (S), WARN/WARNING (M), else L; ABC123 is L; each of
\* the four outcomes occurs for some identifier.
C8_KeywordFallback ==
    /\ pc = "write" /\ ClassifiedId # "" /\ NoSeverityLetter(ClassifiedId)
          => ClassifiedSeverity = KeywordSeverity(Upper(ClassifiedId))
    /\ pc = "write" /\ ClassifiedId = "ABC123" => ClassifiedSeverity = "L"
    /\ \A sev \in {"H", "S", "M", "L"} :
          \E id \in SevInputs \ {""} :
             NoSeverityLetter(id) /\ ExtractSeverity(id) = sev

\* C8 witness: an identifier with the keywords PANIC and ERROR and no
\* severity letter was classified H.
C8_PanicBeforeError ==
    /\ pc = "write"
    /\ ClassifiedId = "ERRORPANIC"
    /\ NoSeverityLetter(ClassifiedId)
    /\ ClassifiedSeverity = "H"

\* C9: when parsing yields zero error-report records, collect returns
\* success = true, records_collected = 0 and error_message = None, and
\* the storage write is not called.
C9_NoRecordsIsSuccess ==
    (collector = "errpt" /\ pc = "done" /\ Len(errpt_data) = 0)
    => /\ result = [success |-> TRUE, records_collected |-> 0,
                    error_message |-> None]
       /\ write_calls = 0
       /\ written = <<>>

\* C9 witness: an output of unmarked lines only was parsed into zero
\* records and collect returned.
C9_UnmarkedOutput ==
    /\ ParsedOutput
    /\ pc = "done"
    /\ Len(lines) >= 2
    /\ \A i \in 1..Len(lines) : ~IsBlank(lines[i])
    /\ errpt_data = <<>>
    /\ result.success

\* the value of key k in record r is one of the texts vs
HoldsOneOf(r, k, vs) == k \in DOMAIN r /\ r[k].t = "str" /\ r[k].s \in vs

\* C10: _process_syslog_data returns one record per entry, in the order
\* of the entries, whether or not a step of _parse_log_message raised
\* for an entry; such an entry gets the defaults in place of the
\* classifier's values.
C10_OneRecordPerEntry ==
    /\ (collector = "syslog" /\ pc = "process")
          => Len(processed_data) = idx - 1
    /\ (collector = "syslog" /\ pc = "write")
          => Len(processed_data) = Len(syslog_data)
    /\ collector = "syslog"
          => \A n \in 1..Len(processed_data) :
                LET e == syslog_data[n]
                    r == processed_data[n]
                IN /\ r["source"] = Str(e.source)
                   /\ e.message # "" => r["message"] = Str(e.message)
                   /\ HoldsOneOf(r, "facility",
                         {DetermineFacility(e.source, e.message), "UNKNOWN"})
                   /\ HoldsOneOf(r, "priority",
                         {DeterminePriority(e.message), "UNKNOWN"})
                   /\ HoldsOneOf(r, "log_level",
                         {DetermineLogLevel(e.message), "INFO"})

\* C10 witness: of two entries the first failed before the component
\* step and the second was parsed completely.
C10_FailedThenParsed ==
    /\ collector = "syslog"
    /\ pc = "write"
    /\ Len(syslog_data) = 2
    /\ Len(processed_data) = 2
    /\ "component" \notin DOMAIN processed_data[1]
    /\ "error_type" \in DOMAIN processed_data[2]

\* the n-th final system-log record and the entry it was built from
FinalRecords == IF collector = "syslog" THEN 1..Len(processed_data) ELSE {}

\* C11: the timestamp of a final system-log record is the bracketed
\* AIX-style timestamp matched first anywhere in the message when the
\* message holds one, and the collection time only when it holds none.
C11_EmbeddedTimestamp ==
    \A n \in FinalRecords :
       LET found == TimestampMatch(syslog_data[n].message)
           r == processed_data[n]
       IN /\ "timestamp" \in DOMAIN r
          /\ r["timestamp"] = Str(IF found # "" THEN found ELSE CollectionTime)

\* the source keywords of the facility classifier, in the order tested
SourceFacilities ==
    << <<"errlog", "SYSTEM">>, <<"conslog", "CONSOLE">>, <<"messages", "SYSLOG">>,
       <<"authlog", "AUTH">>, <<"mail", "MAIL">>, <<"cron", "CRON">>,
       <<"daemon", "DAEMON">>, <<"kern", "KERNEL">>, <<"user", "USER">>,
       <<"local", "LOCAL">> >>

\* the rows of a keyword table that match a lower-cased text
Hits(table, text) ==
    { i \in 1..Len(table) : \E k \in 1..(Len(table[i]) - 1) :
                               Contains(text, table[i][k]) }

\* the value of the first matching row
FirstHit(table, text) ==
    LET i == CHOOSE i \in Hits(table, text) :
                \A j \in Hits(table, text) : i <= j
    IN table[i][Len(table[i])]

\* C12: the facility is decided by the source path first, by the first
\* of errlog, conslog, messages, authlog, mail, cron, daemon, kern, user,
\* local it contains; the message is consulted only when the source
\* holds none of them, so source /var/log/authlog gives AUTH whatever
\* the message holds.
C12_SourceDecidesFacility ==
    \A n \in FinalRecords :
       LET src == Lower(syslog_data[n].source)
           r == processed_data[n]
       IN /\ Hits(SourceFacilities, src) # {}
             => r["facility"] = Str(FirstHit(SourceFacilities, src))
          /\ syslog_data[n].source = "/var/log/authlog"
             => r["facility"] = Str("AUTH")

\* C12 witness: an entry of /var/log/authlog whose message holds the
\* keyword kernel was classified AUTH.
C12_AuthlogWithKernelMessage ==
    \E n \in FinalRecords :
       /\ syslog_data[n].source = "/var/log/authlog"
       /\ Contains(Lower(syslog_data[n].message), "kernel")
       /\ processed_data[n]["facility"] = Str("AUTH")

\* the fixed table from priority to log level
LevelOfPriority ==
    [p \in {"EMERG", "ALERT", "ERR", "WARNING", "NOTICE", "INFO", "DEBUG",
            "UNKNOWN"} |->
       IF p \in {"EMERG", "ALERT"} THEN "CRITICAL"
       ELSE IF p = "ERR" THEN "ERROR"
       ELSE IF p = "WARNING" THEN "WARNING"
       ELSE IF p = "DEBUG" THEN "DEBUG"
       ELSE "INFO"]

\* C13: in every final system-log record log_level is the image of the
\* record's priority under the table EMERG, ALERT to CRITICAL; ERR to
\* ERROR; WARNING to WARNING; NOTICE, INFO to INFO; DEBUG to DEBUG;
\* anything else to INFO.
C13_LevelFollowsPriority ==
    \A n \in FinalRecords :
       LET r == processed_data[n]
       IN /\ {"priority", "log_level"} \subseteq DOMAIN r
          /\ r["priority"].s \in DOMAIN LevelOfPriority
          /\ r["log_level"] = Str(LevelOfPriority[r["priority"].s])

\* C13 witness: a record with priority ALERT and level CRITICAL was
\* built from a message that also holds an ERR keyword.
C13_AlertIsCritical ==
    \E n \in FinalRecords :
       /\ syslog_data[n].message = "Alert: FAILURE"
       /\ processed_data[n]["priority"] = Str("ALERT")
       /\ processed_data[n]["log_level"] = Str("CRITICAL")

\* the keyword groups of the priority classifier, in the order tested
PriorityGroups ==
    << <<"panic", "fatal", "emerg", "emergency", "EMERG">>,
       <<"alert", "critical", "crit", "ALERT">>,
       <<"error", "err", "fail", "failure", "ERR">>,
       <<"warn", "warning", "WARNING">>,
       <<"notice", "note", "NOTICE">>,
       <<"info", "information", "INFO">>,
       <<"debug", "trace", "DEBUG">> >>

\* C14: the priority is that of the first group, in the order EMERG,
\* ALERT, ERR, WARNING, NOTICE, INFO, DEBUG, with a keyword in the
\* lower-cased message, UNKNOWN when there is none; a message with fail
\* and no EMERG or ALERT keyword is ERR with level ERROR, also when it
\* holds a keyword of a later group.
C14_FirstPriorityGroup ==
    \A n \in FinalRecords :
       LET msg == Lower(syslog_data[n].message)
           r == processed_data[n]
       IN /\ r["priority"] =
                Str(IF Hits(PriorityGroups, msg) = {} THEN "UNKNOWN"
                    ELSE FirstHit(PriorityGroups, msg))
          /\ (Contains(msg, "fail") /\ Hits(PriorityGroups, msg) \cap {1, 2} = {})
             => /\ r["priority"] = Str("ERR")
                /\ r["log_level"] = Str("ERROR")

\* C14 witness: a message with the keywords warning and fail was
\* classified ERR with level ERROR.
C14_FailBeatsWarning ==
    \E n \in FinalRecords :
       /\ Contains(Lower(syslog_data[n].message), "warning")
       /\ Contains(Lower(syslog_data[n].message), "fail")
       /\ processed_data[n]["priority"] = Str("ERR")
       /\ processed_data[n]["log_level"] = Str("ERROR")

\* a run of collect_all_servers has returned
FleetReturned == fleet_pc = "idle" /\ run > 1

\* C15: collect_all_servers calls collect_from_server for every
\* configured server, in configuration order, whatever happened for the
\* servers before it, and returns normally with a result for every
\* server.
C15_EveryServerCollected ==
    /\ fleet_pc = "loop"
          => /\ calls = [i \in 1..(server_idx - 1) |-> i]
             /\ ENABLED (CollectAllStep \/ CollectAllReturn)
    /\ FleetReturned
          => /\ calls = [i \in 1..Len(config.aix_servers) |-> i]
             /\ \A i \in 1..Len(config.aix_servers) :
                   (config.errpt_enabled \/ config.syslog_enabled)
                   => \E k \in 1..Len(all_results) :
                         all_results[k].server_name =
                            NameOrUnknown(config.aix_servers[i])

\* C15 witness: a run returned after collect_from_server raised for the
\* first of two servers and a collection succeeded for the second.
C15_SecondAfterRaise ==
    /\ FleetReturned
    /\ calls = <<1, 2>>
    /\ Len(all_results) >= 2
    /\ all_results[1].server_name = Str("aix2")
    /\ all_results[1].collection_type = "general"
    /\ all_results[2].server_name = Str("aix1")
    /\ all_results[2].success

\* collect is at one of its statements and has not returned: no
\* exception has left it
CollectContinues ==
    /\ result = NoResult
    /\ \/ collector = "errpt" /\ pc \in {"collect", "parse", "collected", "write"}
       \/ collector = "syslog" /\ pc = "collect"
             /\ log_idx \in 1..(Len(DefaultLogFiles) + 1)
       \/ collector = "syslog" /\ pc = "process" /\ idx <= Len(syslog_data)
       \/ collector = "syslog" /\ pc = "write"

\* C16: for every server descriptor carrying name and hostname and every
\* behaviour of the remote side and of the storage write, collect of
\* either collector returns a dictionary with the keys success,
\* records_collected and error_message and never raises; error_message
\* is None exactly when success is true.
C16_StructuredResult ==
    /\ pc # "done" => CollectContinues
    /\ pc = "done"
          => /\ DOMAIN result = {"success", "records_collected", "error_message"}
             /\ result.success \in BOOLEAN
             /\ result.records_collected \in Nat
             /\ result.error_message = None <=> result.success
             /\ ~result.success
                   => /\ result.error_message.t = "str"
                      /\ result.error_message.s # ""

\* C16 witness: the system-log collector returned a failure with a
\* message after the storage write returned false, for the server whose
\* name is empty and whose hostname is None.
C16_SyslogWriteRefused ==
    /\ collector = "syslog"
    /\ pc = "done"
    /\ server_config.hostname = None
    /\ Len(written) = 1
    /\ written[1].outcome = "false"
    /\ ~result.success
    /\ result.error_message.t = "str"

\* a text that parses as an integer: an optional sign and digits
IsIntegerText(text) ==
    LET digits == IF Len(text) > 0 /\ CharAt(text, 1) \in {"+", "-"}
                  THEN SubSeq(text, 2, Len(text)) ELSE text
    IN Len(digits) > 0 /\ \A i \in 1..Len(digits) : IsDigit(CharAt(digits, i))

\* C17: the sequence_number of an error-report record is an integer
\* parsed from the text after the marker; a text that does not parse is
\* treated as 0 and the key is omitted, never kept as a non-numeric
\* string.
C17_SequenceNumberIsInteger ==
    (collector = "errpt" /\ pc = "write")
    => \A n \in 1..Len(processed_data) :
          LET r == processed_data[n]
              e == errpt_data[n]
          IN IF "sequence_number" \in DOMAIN e
                /\ IsIntegerText(e["sequence_number"])
             THEN "sequence_number" \in DOMAIN r
                  => r["sequence_number"].t = "int"
             ELSE "sequence_number" \notin DOMAIN r

\* the text after the first occurrence of a marker in a line
TextAfter(line, marker) ==
    SubSeq(line, Find(line, marker) + Len(marker), Len(line))

\* the first marker, in table order, a line contains
FirstMarkerIn(line) ==
    CHOOSE m \in MarkersIn(line) : \A k \in MarkersIn(line) : m <= k

\* C20: a non-blank line is tested against the markers in table order;
\* only the first marker it contains is used, the trimmed text after
\* that marker is stored under the marker's key, and the line changes
\* at most that one key of the accumulator.
C20_FirstMarkerStored ==
    [][(pc = "parse" /\ idx <= Len(lines) /\ idx' = idx + 1
        /\ ~IsBlank(lines[idx]))
       => LET line == Strip(lines[idx])
          IN IF MarkersIn(line) = {}
             THEN current_entry' = current_entry
             ELSE LET m == Markers[FirstMarkerIn(line)]
                  IN current_entry' =
                        DictSet(current_entry, m.key,
                                Strip(TextAfter(line, m.marker)))]_vars

\* C18: in every final system-log record whose input message is not
\* empty, the keys message and raw_message are both present and hold the
\* same string, the message of the input entry unchanged.
C18_MessageKeptTwice ==
    \A n \in FinalRecords :
       syslog_data[n].message # ""
       => /\ {"message", "raw_message"} \subseteq DOMAIN processed_data[n]
          /\ processed_data[n]["message"] = Str(syslog_data[n].message)
          /\ processed_data[n]["raw_message"] = processed_data[n]["message"]

\* C18 witness: a message of mixed case went through processing and the
\* final record holds it, letter for letter, under both keys.
C18_MixedCaseKept ==
    /\ collector = "syslog"
    /\ pc = "write"
    /\ Len(processed_data) = 1
    /\ syslog_data[1].message = "Alert: FAILURE"
    /\ processed_data[1]["message"] = Str("Alert: FAILURE")
    /\ processed_data[1]["raw_message"] = Str("Alert: FAILURE")

\* the timestamp of the n-th entry was set from the clock
Defaulted(n) ==
    /\ collector = "syslog"
    /\ ~(StartsAt(syslog_data[n].message, "[", 1)
         /\ Contains(syslog_data[n].message, "]"))

\* C19: a call of collect repeated on the same input and the same server
\* produces the records of the call before, key for key and value for
\* value, but for the timestamp of a system-log entry that was set from
\* the clock.
C19_SameRecordsAgain ==
    (run > 1 /\ pc = "done")
    => /\ Len(RecordsOfRun) = Len(previous)
       /\ \A n \in 1..Len(previous) :
             /\ DOMAIN RecordsOfRun[n] = DOMAIN previous[n]
             /\ \A k \in DOMAIN previous[n] :
                   \/ RecordsOfRun[n][k] = previous[n][k]
                   \/ k = "timestamp" /\ Defaulted(n)

\* C19 witness: the second call has returned the record of a log line
\* without a bracket; it differs from the first in the timestamp.
C19_SecondRunLaterClock ==
    /\ run = 2
    /\ pc = "done"
    /\ collector = "syslog"
    /\ Len(previous) = 1
    /\ Len(RecordsOfRun) = 1
    /\ Defaulted(1)
    /\ previous[1]["timestamp"] = Str(Times[1])
    /\ RecordsOfRun[1]["timestamp"] = Str(Times[2])


\* C21: a non-blank line that contains no marker leaves the accumulator
\* and the records emitted so far as they were.
C21_UnmarkedLineDropped ==
    [][(pc = "parse" /\ idx <= Len(lines) /\ idx' = idx + 1
        /\ ~IsBlank(lines[idx]) /\ MarkersIn(lines[idx]) = {})
       => /\ current_entry' = current_entry
          /\ errpt_data' = errpt_data]_vars

\* C21 witness: an unmarked line after an identifier line has been
\* consumed; the accumulator holds the identifier alone and no record
\* has been emitted.
C21_NoiseAfterIdentifier ==
    /\ pc = "parse"
    /\ Len(lines) = 2
    /\ idx = 3
    /\ lines[1] = "IDENTIFIER: A1B2"
    /\ lines[2] = "noise"
    /\ DOMAIN current_entry = {"error_id"}
    /\ errpt_data = <<>>


\* C22: one call of collect calls the storage write at most once, with
\* all the records of the collection in that call; a write that fails
\* fails the whole collection, with no record counted.
C22_OneBatchPerCollect ==
    /\ write_calls <= 1
    /\ Len(written) = write_calls
    /\ (pc # "done") => write_calls = 0
    /\ write_calls = 1
       => /\ written[1].records = processed_data
          /\ IF written[1].outcome = "true"
             THEN /\ result.success
                  /\ result.records_collected = Len(processed_data)
             ELSE /\ ~result.success
                  /\ result.records_collected = 0

\* C22 witness: the error-report collector handed two records to the
\* storage write in one call, the write returned False and the result
\* counts no record.
C22_TwoRecordsOneRefusedCall ==
    /\ collector = "errpt"
    /\ pc = "done"
    /\ write_calls = 1
    /\ Len(processed_data) = 2
    /\ written = <<[records |-> processed_data, outcome |-> "false"]>>
    /\ ~result.success
    /\ result.records_collected = 0


\* the message keywords of the facility classifier, in the order tested
MessageFacilities ==
    << <<"kernel", "driver", "module", "KERNEL">>,
       <<"auth", "login", "password", "su", "AUTH">>,
       <<"mail", "smtp", "pop", "imap", "MAIL">>,
       <<"cron", "at", "batch", "CRON">>,
       <<"daemon", "service", "inetd", "DAEMON">> >>

\* the component keywords, in the order tested, each with its value
ComponentRows ==
    << <<"hacmp", "HACMP">>, <<"vios", "VIOS">>, <<"lpar", "LPAR">>,
       <<"aix", "AIX">>, <<"power", "POWER">>, <<"ibm", "IBM">>,
       <<"network", "NETWORK">>, <<"disk", "DISK">>, <<"memory", "MEMORY">>,
       <<"cpu", "CPU">>, <<"filesystem", "FILESYSTEM">>,
       <<"security", "SECURITY">>, <<"user", "USER">>, <<"group", "GROUP">>,
       <<"process", "PROCESS">>, <<"service", "SERVICE">> >>

\* the keyword groups of the error-type classifier, in the order tested
ErrorTypeGroups ==
    << <<"timeout", "timed out", "TIMEOUT">>,
       <<"connection refused", "connection failed", "CONNECTION_ERROR">>,
       <<"permission denied", "access denied", "PERMISSION_ERROR">>,
       <<"file not found", "no such file", "FILE_ERROR">>,
       <<"out of memory", "memory full", "MEMORY_ERROR">>,
       <<"disk full", "no space", "DISK_ERROR">>,
       <<"network unreachable", "host unreachable", "NETWORK_ERROR">>,
       <<"service not available", "service down", "SERVICE_ERROR">> >>

\* the value of the first matching row, or the default when none matches
FirstHitOr(table, text, default) ==
    IF Hits(table, text) = {} THEN default ELSE FirstHit(table, text)

\* C23: in every final system-log record each classified field holds the
\* value of the first row of its table, in table order, that the
\* lower-cased text contains, and the default when no row matches:
\* facility from the source and then from the message, else UNKNOWN;
\* priority else UNKNOWN; component from the message, else SYSTEM;
\* error_type else GENERAL.
C23_FirstMatchOrDefault ==
    \A n \in FinalRecords :
       LET src == Lower(syslog_data[n].source)
           msg == Lower(syslog_data[n].message)
           r == processed_data[n]
       IN /\ r["facility"] =
                Str(FirstHitOr(SourceFacilities, src,
                       FirstHitOr(MessageFacilities, msg, "UNKNOWN")))
          /\ r["priority"] = Str(FirstHitOr(PriorityGroups, msg, "UNKNOWN"))
          /\ r["component"] = Str(FirstHitOr(ComponentRows, msg, "SYSTEM"))
          /\ r["error_type"] = Str(FirstHitOr(ErrorTypeGroups, msg, "GENERAL"))

\* C23 witness: a message that holds user before disk and a full disk
\* before a timeout, read from a file whose path holds no keyword, got
\* the earlier rows DISK and TIMEOUT and the defaults of the two
\* classifiers that matched nothing.
C23_EarlierRowsAndDefaults ==
    \E n \in FinalRecords :
       /\ syslog_data[n].message = "disk full after user timed out"
       /\ syslog_data[n].source = "/tmp/app.log"
       /\ processed_data[n]["component"] = Str("DISK")
       /\ processed_data[n]["error_type"] = Str("TIMEOUT")
       /\ processed_data[n]["priority"] = Str("UNKNOWN")
       /\ processed_data[n]["facility"] = Str("UNKNOWN")


\* the error-report records have been enriched
ErrptProcessed ==
    /\ collector = "errpt"
    /\ pc \in {"write", "done"}
    /\ result # ResultNoData

\* C24: every record produced by _process_errpt_data has the key
\* severity, with one of the values H, S, M, L, UNKNOWN, and the value is
\* UNKNOWN exactly when the parsed block has no error_id or an empty one.
C24_SeverityAlwaysClassified ==
    ErrptProcessed
    => /\ Len(processed_data) = Len(errpt_data)
       /\ \A n \in 1..Len(processed_data) :
             /\ "severity" \in DOMAIN processed_data[n]
             /\ processed_data[n]["severity"]
                   \in {Str("H"), Str("S"), Str("M"), Str("L"), Str("UNKNOWN")}
             /\ processed_data[n]["severity"] = Str("UNKNOWN")
                   <=> ErrorIdOf(errpt_data[n]) = ""

\* C24 witness: of two blocks, the one without the key error_id was
\* classified UNKNOWN and the one with HW1 was classified H.
C24_AbsentAndGiven ==
    /\ ErrptProcessed
    /\ Len(errpt_data) = 2
    /\ "error_id" \notin DOMAIN errpt_data[1]
    /\ "error_id" \in DOMAIN errpt_data[2]
    /\ errpt_data[2]["error_id"] = "HW1"
    /\ processed_data[1]["severity"] = Str("UNKNOWN")
    /\ processed_data[2]["severity"] = Str("H")


\* C25: a line 'Resource Class: X' stores X under resource_class and a
\* line 'Resource Type: X' stores X under resource_type, and neither
\* sets or overwrites the keys class and type of the block.
C25_ResourceFieldsStored ==
    [][(pc = "parse" /\ idx <= Len(lines) /\ idx' = idx + 1)
       => LET line == Strip(lines[idx])
          IN /\ StartsAt(line, "Resource Class:", 1)
                => current_entry' =
                      DictSet(current_entry, "resource_class",
                              Strip(TextAfter(line, "Resource Class:")))
             /\ StartsAt(line, "Resource Type:", 1)
                => current_entry' =
                      DictSet(current_entry, "resource_type",
                              Strip(TextAfter(line, "Resource Type:")))]_vars


\* the collection types of a list of results, in order
TypesOf(results) == [k \in 1..Len(results) |-> results[k].collection_type]

\* the kinds the configuration enables, error reports first
EnabledKinds ==
    (IF config.errpt_enabled THEN <<"errpt">> ELSE <<>>)
    \o (IF config.syslog_enabled THEN <<"syslog">> ELSE <<>>)

\* C26: a call of collect_from_server whose connection test fails
\* returns one result, of type connection_test, unsuccessful and with no
\* record, and calls neither collector, hence no storage write; a call
\* whose test succeeds returns one result for each enabled kind, error
\* reports before system logs.
C26_ConnectionTestGates ==
    \A i \in 1..Len(invocations) :
       LET c == invocations[i]
       IN /\ c.tested = "fail"
             => /\ Len(c.results) = 1
                /\ c.results[1].collection_type = "connection_test"
                /\ ~c.results[1].success
                /\ c.results[1].records_collected = 0
                /\ c.invoked = <<"test_connection">>
          /\ c.tested = "ok"
             => /\ TypesOf(c.results) = EnabledKinds
                /\ c.invoked =
                      <<"test_connection">>
                      \o [k \in 1..Len(EnabledKinds) |->
                             EnabledKinds[k] \o "_collector"]

\* C26 witness: with both kinds enabled, the test failed for the first
\* server, which got the single connection_test result, and succeeded
\* for the second, which got an errpt result and then a syslog result.
C26_FailedThenCollected ==
    /\ Len(invocations) = 2
    /\ invocations[1].tested = "fail"
    /\ TypesOf(invocations[1].results) = <<"connection_test">>
    /\ invocations[1].invoked = <<"test_connection">>
    /\ invocations[2].tested = "ok"
    /\ TypesOf(invocations[2].results) = <<"errpt", "syslog">>
    /\ TypesOf(all_results) = <<"connection_test", "errpt", "syslog">>


Others(conns, k) == Without(conns, k)

\* the entry a successful call stores
NewEntry(call) ==
    IF call.client = 0 THEN <<>>
    ELSE <<[key |-> call.key, client |-> call.client]>>

\* C28 as stated: the pool never holds more than max_connections
\* clients nor two under one key, a client returned is the one stored
\* under the requested key, and whenever a call finds the pool full and
\* adds a new client it first removes exactly one other entry, the one
\* inserted earliest.
C28_FullPoolEvictsAnother ==
    /\ [](/\ Len(connections) <= max_connections
          /\ Cardinality(KeysIn(connections)) = Len(connections))
    /\ [][pool_call'.op = "get"
          => LET k == pool_call'.key
             IN /\ pool_call'.client # 0
                   => /\ k \in KeysIn(connections')
                      /\ StoredClient(connections', k) = pool_call'.client
                /\ (/\ Len(connections) >= max_connections
                    /\ clients_made' # clients_made)
                   => /\ Others(connections, k) # <<>>
                      /\ Others(connections', k)
                            = Tail(Others(connections, k))]_vars

\* C28 as amended: the pool never holds more than max_connections
\* clients nor two under one key, and a client returned is the one
\* stored under the requested key. A call for a key that is not stored
\* finds the pool full: it removes the entry inserted earliest and no
\* other, and then adds the new client, or nothing when the connection
\* could not be made. A call for a stored key removes no other entry: a
\* live client is returned and the pool is unchanged, a dead one is
\* replaced by a new client inserted last, also when the pool is full.
C28_PoolBoundedOldestEvicted ==
    /\ [](/\ Len(connections) <= max_connections
          /\ Cardinality(KeysIn(connections)) = Len(connections))
    /\ [][pool_call'.op = "get"
          => LET k == pool_call'.key
             IN /\ pool_call'.client # 0
                   => /\ k \in KeysIn(connections')
                      /\ StoredClient(connections', k) = pool_call'.client
                /\ (k \notin KeysIn(connections)
                    /\ Len(connections) >= max_connections)
                   => connections' = Tail(connections) \o NewEntry(pool_call')
                /\ (k \notin KeysIn(connections)
                    /\ Len(connections) < max_connections)
                   => connections' = connections \o NewEntry(pool_call')
                /\ k \in KeysIn(connections)
                   => \/ connections' = connections
                      \/ connections' =
                            Others(connections, k) \o NewEntry(pool_call')]_vars

\* C28 witness: in a pool of two, the third key was requested after the
\* first and the second; the entry of the first is gone, the second
\* stayed and the third was added last and returned.
C28_ThirdKeyEvictsFirst ==
    /\ max_connections = 2
    /\ clients_made = 3
    /\ connections = <<[key |-> "10.0.0.2:22:root", client |-> 2],
                       [key |-> "10.0.0.3:22:root", client |-> 3]>>
    /\ pool_call = [op |-> "get", key |-> "10.0.0.3:22:root", client |-> 3]


\* C29: load returns a configuration only if it passed _validate_config;
\* in particular a load after one that raised a validation error, with
\* the file unchanged, does not return the configuration that failed.
C29_OnlyValidatedReturned ==
    (load_call.op \in {"load", "reload"} /\ ~load_call.raised)
    => Validates(load_call.value)

\* C30: a firing of the job registered with errpt_interval calls the
\* error-report collector only, and a firing of the job registered with
\* syslog_interval calls the system-log collector only.
C30_EachJobItsOwnKind ==
    \A n \in 1..Len(firing.collected) :
       firing.collected[n] =
          (IF firing.job = "errpt_interval" THEN "errpt_collector"
           ELSE "syslog_collector")

====
